---- MODULE Spec2Model ----
(***************************************************************************)
(* Model of the CHRIS ROS modeling tools:                                  *)
(*   - chris_haros_model_merger: the remodelers that merge a HAROS         *)
(*     (specification side) model into the CHRIS (deployment side) banks;  *)
(*   - chris_ros_snapshot: the promotion of topic clusters to actions and  *)
(*     the nodelet manager classification of nodes.                        *)
(*                                                                         *)
(* Strings of the program are modelled as sequences of atoms.  The atoms   *)
(* "/", ",", " " and "?" are the single characters; every other atom is a  *)
(* non-empty word that contains none of them.  None is NoneV; an attribute *)
(* that the object does not have is Absent.                                *)
(***************************************************************************)
EXTENDS Integers, Sequences, FiniteSets, TLC

VARIABLES
    kind,       \* merger: the remodeler class that runs (its TYPE)
    chris,      \* merger: the CHRIS banks of that remodeler, bank type -> name -> entity
    actionBank, \* merger: the CHRIS action bank, action name -> suffix names of its topics
    crashed,    \* merger: an exception left remodel()
    last,       \* merger: record of the last loop iteration of remodel()
    bankOrder,  \* merger: the order in which the dict _chris_model_banks yields its keys
    topicBank,  \* snapshot: TopicBankBuilder.names_to_entity_builders
    actions,    \* snapshot: ActionBankBuilder.names_to_entity_builders
    apc,        \* snapshot: position of ROSModelBuilder.prepare w.r.t. actions
    node,       \* snapshot: one NodeBuilder
    npc,        \* snapshot: position of that NodeBuilder (collecting / prepared)
    nodeBank,   \* snapshot: NodeBankBuilder.names_to_entity_builders
    bpc,        \* snapshot: position of the NodeBankBuilder (collecting / prepared)
    tm,         \* snapshot: the locals of one call of _match_token_types
    tpc,        \* snapshot: position of that call
    vn,         \* snapshot: the arguments and the outcome of one call of _validate_node_builder
    vpc,        \* snapshot: position of that call
    bk,         \* a bank (of metamodels or of builders), its instances and its lookups
    ent,        \* one entity of a bank: its name, its source and its version
    epc,        \* the last operation on that entity
    mn,         \* main() of the snapshot tool: its options, the specification files, its position and what it did
    us          \* snapshot: the arguments and the locals of one call of _update_node_specification_data

vars == <<kind, chris, actionBank, crashed, last, bankOrder, topicBank, actions, apc,
         node, npc, nodeBank, bpc, tm, tpc, vn, vpc, bk, ent, epc, mn, us>>
mergerVars == <<kind, chris, actionBank, crashed, last, bankOrder>>
actionVars == <<topicBank, actions, apc>>
nodeVars == <<node, npc>>
bankVars == <<nodeBank, bpc>>
matchVars == <<tm, tpc>>
validVars == <<vn, vpc>>
lookupVars == <<bk>>
versionVars == <<ent, epc>>
mainVars == <<mn>>
updateVars == <<us>>
\* the variables of the parts that follow the first three
laterVars == <<bankVars, matchVars, validVars, lookupVars, versionVars, mainVars, updateVars>>
\* the variables that a part leaves alone
bankRest == <<mergerVars, actionVars, nodeVars, matchVars, validVars, lookupVars, versionVars, mainVars, updateVars>>
matchRest == <<mergerVars, actionVars, nodeVars, bankVars, validVars, lookupVars, versionVars, mainVars, updateVars>>
validRest == <<mergerVars, actionVars, nodeVars, bankVars, matchVars, lookupVars, versionVars, mainVars, updateVars>>
lookupRest == <<mergerVars, actionVars, nodeVars, bankVars, matchVars, validVars, versionVars, mainVars, updateVars>>
versionRest == <<mergerVars, actionVars, nodeVars, bankVars, matchVars, validVars, lookupVars, mainVars, updateVars>>
mainRest == <<mergerVars, actionVars, nodeVars, bankVars, matchVars, validVars, lookupVars, versionVars, updateVars>>
updateRest == <<mergerVars, actionVars, nodeVars, bankVars, matchVars, validVars, lookupVars, versionVars, mainVars>>

\* None, a missing attribute, True and False: atoms that occur in no string
NoneV == <<"@None">>
Absent == <<"@Absent">>
PyTrue == <<"@True">>
PyFalse == <<"@False">>

(***************************************************************************)
(* Bounds of the model.                                                    *)
(***************************************************************************)
MaxVersion == 2     \* versions of the entities stay <= MaxVersion

(***************************************************************************)
(* Python str operations, on sequences of atoms.                           *)
(***************************************************************************)
RECURSIVE LStrip(_)
LStrip(s) == IF s # <<>> /\ Head(s) = " " THEN LStrip(Tail(s)) ELSE s

RECURSIVE RStrip(_)
RStrip(s) ==
    IF s # <<>> /\ s[Len(s)] = " " THEN RStrip(SubSeq(s, 1, Len(s) - 1)) ELSE s

\* str.strip()
Strip(s) == RStrip(LStrip(s))

\* c in s, for a single character c
Contains(s, c) == \E i \in 1..Len(s) : s[i] = c

\* index of the last occurrence of c in s, 0 when there is none
LastIndexOf(s, c) ==
    IF Contains(s, c)
    THEN CHOOSE i \in 1..Len(s) : s[i] = c /\ \A j \in (i+1)..Len(s) : s[j] # c
    ELSE 0

\* s.split(c)[-1]
LastToken(s, c) == SubSeq(s, LastIndexOf(s, c) + 1, Len(s))

\* s.split(c): the list of the pieces between the occurrences of c
RECURSIVE Split(_, _)
Split(s, c) ==
    IF ~Contains(s, c) THEN <<s>>
    ELSE LET i == CHOOSE k \in 1..Len(s) : s[k] = c /\ \A j \in 1..(k-1) : s[j] # c
         IN  <<SubSeq(s, 1, i - 1)>> \o Split(SubSeq(s, i + 1, Len(s)), c)

\* sep.join(list)
RECURSIVE Join(_, _)
Join(list, sep) ==
    IF list = <<>> THEN <<>>
    ELSE IF Len(list) = 1 THEN list[1]
    ELSE list[1] \o sep \o Join(Tail(list), sep)

\* s.replace(word, ''), for a word that is one atom
RECURSIVE Remove(_, _)
Remove(s, word) ==
    IF s = <<>> THEN <<>>
    ELSE IF Head(s) = word THEN Remove(Tail(s), word)
    ELSE <<Head(s)>> \o Remove(Tail(s), word)

\* the order of the atoms, as the order of their first characters in ASCII
AtomRank(a) ==
    CASE a = " " -> 0
      [] a = "," -> 1
      [] a = "/" -> 2
      [] a = "?" -> 3
      [] a = "haros_chris_model_merger" -> 4
      [] a = "package_modeler" -> 5
      [] a = "ros_snapshot" -> 6
      [] OTHER -> 7

\* a <= b for Python strings
RECURSIVE StrLeq(_, _)
StrLeq(a, b) ==
    IF a = <<>> THEN TRUE
    ELSE IF b = <<>> THEN FALSE
    ELSE IF AtomRank(Head(a)) < AtomRank(Head(b)) THEN TRUE
    ELSE IF AtomRank(Head(a)) > AtomRank(Head(b)) THEN FALSE
    ELSE StrLeq(Tail(a), Tail(b))

\* sorted(S) for a set S of strings
RECURSIVE Sorted(_)
Sorted(S) ==
    IF S = {} THEN <<>>
    ELSE LET m == CHOOSE x \in S : \A y \in S : StrLeq(x, y)
         IN  <<m>> \o Sorted(S \ {m})

Range(f) == {f[x] : x \in DOMAIN f}

\* d[k] = v on a dict d
Put(d, k, v) == [x \in (DOMAIN d) \cup {k} |-> IF x = k THEN v ELSE d[x]]

EmptyDict == [x \in {} |-> NoneV]

\* the orders in which a dict may yield its keys
IterationOrders(keys) ==
    {order \in [1..Cardinality(keys) -> keys] :
        \A i, j \in 1..Cardinality(keys) : order[i] = order[j] => i = j}

\* a part of the tools that does not run
MergerIdle ==
    /\ kind = "snapshot" /\ chris = EmptyDict /\ actionBank = EmptyDict
    /\ crashed = FALSE /\ last = EmptyDict /\ bankOrder = <<>>
ActionIdle == topicBank = EmptyDict /\ actions = EmptyDict /\ apc = "idle"
NodeIdle == node = EmptyDict /\ npc = "idle"
NodeBankIdle == nodeBank = EmptyDict /\ bpc = "idle"
MatchIdle == tm = EmptyDict /\ tpc = "idle"
ValidIdle == vn = EmptyDict /\ vpc = "idle"
LookupIdle == bk = EmptyDict
VersionIdle == ent = EmptyDict /\ epc = EmptyDict
MainIdle == mn = EmptyDict
UpdateIdle == us = EmptyDict
LaterIdle == NodeBankIdle /\ MatchIdle /\ ValidIdle /\ LookupIdle /\ VersionIdle /\ MainIdle /\ UpdateIdle
BankRestIdle ==
    MergerIdle /\ ActionIdle /\ NodeIdle /\ MatchIdle /\ ValidIdle /\ LookupIdle /\ VersionIdle /\ MainIdle /\ UpdateIdle
MatchRestIdle ==
    MergerIdle /\ ActionIdle /\ NodeIdle /\ NodeBankIdle /\ ValidIdle /\ LookupIdle /\ VersionIdle /\ MainIdle /\ UpdateIdle
ValidRestIdle ==
    MergerIdle /\ ActionIdle /\ NodeIdle /\ NodeBankIdle /\ MatchIdle /\ LookupIdle /\ VersionIdle /\ MainIdle /\ UpdateIdle
LookupRestIdle ==
    MergerIdle /\ ActionIdle /\ NodeIdle /\ NodeBankIdle /\ MatchIdle /\ ValidIdle /\ VersionIdle /\ MainIdle /\ UpdateIdle
VersionRestIdle ==
    MergerIdle /\ ActionIdle /\ NodeIdle /\ NodeBankIdle /\ MatchIdle /\ ValidIdle /\ LookupIdle /\ MainIdle /\ UpdateIdle
MainRestIdle ==
    MergerIdle /\ ActionIdle /\ NodeIdle /\ NodeBankIdle /\ MatchIdle /\ ValidIdle /\ LookupIdle /\ VersionIdle /\ UpdateIdle
UpdateRestIdle ==
    MergerIdle /\ ActionIdle /\ NodeIdle /\ NodeBankIdle /\ MatchIdle /\ ValidIdle /\ LookupIdle /\ VersionIdle /\ MainIdle

\* Python truth value of a scalar (None, '' and False are false)
Truthy(x) == x # NoneV /\ x # <<>> /\ x # PyFalse

(***************************************************************************)
(* chris_haros_model_merger: base remodeler.                               *)
(***************************************************************************)
REMODELER_SOURCE_NAME == <<"haros_chris_model_merger">>

\* entity.source: a str, a list of str, or None
SrcStr(s) == [t |-> "str", v |-> s]
SrcList(l) == [t |-> "list", v |-> l]
SrcNone == [t |-> "none", v |-> <<>>]

\* what a helper returns: the entity as it left it, its return value, what it
\* logged, and whether an exception left it
Res(m, updated, log, crash) == [m |-> m, updated |-> updated, log |-> log, crash |-> crash]

\* a variant that tests the whole name only, not its last segment
check_whole_name_only(haros_name) == Strip(haros_name) # <<"?">>

check_haros_name_is_complete(haros_name) ==
    IF Contains(haros_name, "/")
    THEN LastToken(Strip(haros_name), "/") # <<"?">>
    ELSE Strip(haros_name) # <<"?">>

\* the ERROR line that check_haros_name_is_complete logs for an incomplete name
IncompleteLog(haros_name) ==
    IF check_haros_name_is_complete(haros_name) THEN {} ELSE {"incomplete"}

update_chris_model_version(chris_model, model_updated) ==
    IF ~model_updated THEN Res(chris_model, model_updated, {}, FALSE)
    ELSE LET bumped == [chris_model EXCEPT !.version = @ + 1]
             src == chris_model.source
         IN  CASE src.t = "list" ->
                    Res([bumped EXCEPT !.source =
                            SrcList(Sorted(Range(src.v) \cup {REMODELER_SOURCE_NAME}))],
                        model_updated, {}, FALSE)
               [] src.t = "str" ->
                    Res([bumped EXCEPT !.source =
                            SrcStr(Join(Sorted({Strip(x) : x \in Range(Split(src.v, ","))}
                                               \cup {REMODELER_SOURCE_NAME}),
                                        <<",", " ">>))],
                        model_updated, {}, FALSE)
               [] OTHER -> Res(bumped, model_updated, {"source_error"}, FALSE)

initialize_chris_model_version(chris_model) ==
    [chris_model EXCEPT !.version = 0, !.source = SrcStr(REMODELER_SOURCE_NAME)]

\* _EntityMetamodel.__new__: name, source and version of a fresh entity
NewEntity(name) == [name |-> name, source |-> SrcNone, version |-> 0]

\* the values that a caller of update_attributes may give for 'version':
\* no such keyword, None, an int, the text of an int, another text
VersionKeywords ==
    {[t |-> "absent"], [t |-> "none"], [t |-> "text"]}
    \cup {[t |-> "int", v |-> v] : v \in {-1, 0, 1}}
    \cup {[t |-> "digits", v |-> 1]}

\* a variant in which the version is set to the int that is given
set_version_attribute(entity, keyword) ==
    IF keyword.t \in {"int", "digits"} THEN [entity EXCEPT !.version = keyword.v]
    ELSE entity

\* _EntityMetamodel.update_attributes(version=...), on an entity whose
\* version is an int: max(val, int(kwargs[key])) + 1, and val + 1 when int()
\* raises
update_version_attribute(entity, keyword) ==
    IF keyword.t \in {"absent", "none"} THEN entity
    ELSE IF keyword.t \in {"int", "digits"}
    THEN [entity EXCEPT !.version = (IF @ >= keyword.v THEN @ ELSE keyword.v) + 1]
    ELSE [entity EXCEPT !.version = @ + 1]

\* the accumulator of the loops that merge HAROS links into a CHRIS collection
Acc(c, updated, log, crash) == [c |-> c, updated |-> updated, log |-> log, crash |-> crash]

\* the loops "for link in ...: if complete(name) and name not in names: names.add(name)"
\* of the topic, parameter and service remodelers; only the service remodeler
\* tests the link (checked) before it reads link.node.id
RECURSIVE AddNodeNames(_, _, _)
AddNodeNames(links, checked, acc) ==
    IF links = <<>> \/ acc.crash THEN acc
    ELSE LET n == Head(links)
             next ==
                IF n = NoneV
                THEN (IF checked THEN [acc EXCEPT !.log = @ \cup {"no_link"}]
                      ELSE [acc EXCEPT !.crash = TRUE])
                ELSE IF ~check_haros_name_is_complete(n)
                THEN [acc EXCEPT !.log = @ \cup {"incomplete"}]
                ELSE IF n \notin acc.c
                THEN Acc(acc.c \cup {n}, TRUE, acc.log \cup {"add"}, acc.crash)
                ELSE acc
         IN  AddNodeNames(Tail(links), checked, next)

\* the loops "if complete(name): if name in d: compare the types, else: d[name] = type"
\* of the node and node specification remodelers; links are <<name, type>>
RECURSIVE AddNamesToTypes(_, _)
AddNamesToTypes(links, acc) ==
    IF links = <<>> \/ acc.crash THEN acc
    ELSE LET n == Head(links)[1]
             ty == Head(links)[2]
             next ==
                IF ~check_haros_name_is_complete(n)
                THEN [acc EXCEPT !.log = @ \cup {"incomplete"}]
                ELSE IF n \in DOMAIN acc.c
                THEN IF ty # acc.c[n] THEN [acc EXCEPT !.log = @ \cup {"conflict"}] ELSE acc
                ELSE Acc(Put(acc.c, n, ty), TRUE, acc.log \cup {"add"}, acc.crash)
         IN  AddNamesToTypes(Tail(links), next)

(***************************************************************************)
(* TopicRemodeler                                                          *)
(***************************************************************************)
merge_haros_topic_links_with_chris_topic_nodes(haros_topic_model, chris_topic_model) ==
    LET p == AddNodeNames(haros_topic_model.publishers, FALSE,
                          Acc(chris_topic_model.publisher_node_names, FALSE, {}, FALSE))
        q == AddNodeNames(haros_topic_model.subscribers, FALSE,
                          Acc(chris_topic_model.subscriber_node_names, FALSE, {}, p.crash))
    IN  Res([chris_topic_model EXCEPT !.publisher_node_names = p.c,
                                      !.subscriber_node_names = q.c],
            p.updated \/ q.updated, p.log \cup q.log, q.crash)

\* a variant in which the type of the HAROS topic wins
Topic_helper_merge_overwriting_type(bank_type, haros_model, chris_model) ==
    merge_haros_topic_links_with_chris_topic_nodes(haros_model,
        [chris_model EXCEPT !.construct_type = haros_model.type])

Topic_helper_merge_haros_model_with_chris_model(bank_type, haros_model, chris_model) ==
    LET conflict == IF haros_model.type # chris_model.construct_type
                    THEN {"conflict"} ELSE {}
        r == merge_haros_topic_links_with_chris_topic_nodes(haros_model, chris_model)
    IN  Res(r.m, r.updated, conflict \cup r.log, r.crash)

\* TopicBank._create_entity: Topic.__new__
Topic_create_entity(name) ==
    [name |-> name, source |-> SrcNone, version |-> 0, construct_type |-> NoneV,
     publisher_node_names |-> {}, subscriber_node_names |-> {}]

Topic_helper_populate_new_chris_model(bank_type, haros_model, new_chris_model_instance) ==
    LET r == merge_haros_topic_links_with_chris_topic_nodes(haros_model,
                [new_chris_model_instance EXCEPT !.construct_type = haros_model.type])
    IN  Res(r.m, r.updated, r.log, r.crash)

(***************************************************************************)
(* ServiceRemodeler                                                        *)
(***************************************************************************)
helper_merge_haros_services_with_chris_model(haros_service_model_links, chris_service_model_nodes) ==
    AddNodeNames(haros_service_model_links, TRUE,
                 Acc(chris_service_model_nodes, FALSE, {}, FALSE))

Service_helper_merge_haros_model_with_chris_model(bank_type, haros_model, chris_model) ==
    LET conflict == IF haros_model.type # chris_model.construct_type
                    THEN {"conflict"} ELSE {}
        p == helper_merge_haros_services_with_chris_model(
                 <<haros_model.server>>, chris_model.service_provider_node_names)
        q == helper_merge_haros_services_with_chris_model(haros_model.clients, {})
        m1 == [chris_model EXCEPT !.service_provider_node_names = p.c]
        m2 == IF q.updated
              THEN [m1 EXCEPT !.has_service_client_node_names = TRUE,
                              !.service_client_node_names = q.c]
              ELSE m1
    IN  Res(m2, p.updated \/ q.updated, conflict \cup p.log \cup q.log, FALSE)

\* ServiceBank._create_entity: Service.__new__ (no service_client_node_names attribute)
Service_create_entity(name) ==
    [name |-> name, source |-> SrcNone, version |-> 0, construct_type |-> NoneV,
     service_provider_node_names |-> {},
     has_service_client_node_names |-> FALSE, service_client_node_names |-> {}]

Service_helper_populate_new_chris_model(bank_type, haros_model, new_chris_model_instance) ==
    LET p == helper_merge_haros_services_with_chris_model(
                 <<haros_model.server>>, new_chris_model_instance.service_provider_node_names)
        q == helper_merge_haros_services_with_chris_model(haros_model.clients, {})
    IN  Res([new_chris_model_instance EXCEPT
                 !.construct_type = haros_model.type,
                 !.service_provider_node_names = p.c,
                 !.has_service_client_node_names = TRUE,
                 !.service_client_node_names = q.c],
            p.updated \/ q.updated, p.log \cup q.log, FALSE)

(***************************************************************************)
(* ParameterRemodeler                                                      *)
(***************************************************************************)
merge_haros_parameter_links_with_chris_parameter_nodes(haros_parameter_model, chris_parameter_model) ==
    LET p == AddNodeNames(haros_parameter_model.writes, FALSE,
                          Acc(chris_parameter_model.setting_node_names, FALSE, {}, FALSE))
        q == AddNodeNames(haros_parameter_model.reads, FALSE,
                          Acc(chris_parameter_model.reading_node_names, FALSE, {}, p.crash))
    IN  Res([chris_parameter_model EXCEPT !.setting_node_names = p.c,
                                          !.reading_node_names = q.c],
            p.updated \/ q.updated, p.log \cup q.log, q.crash)

\* str(value).strip() and the name of type(value), of a HAROS parameter value;
\* a value is <<python type, text>>
ValueStr(value) == IF value = NoneV THEN <<"None">> ELSE Strip(value[2])
ValueType(value) == value[1]
ValueTruthy(value) == value # NoneV /\ value[2] # <<>>
\* str(chris_model.value).strip()
ChrisValueStr(value) == IF value = NoneV THEN <<"None">> ELSE Strip(value)

Parameter_helper_merge_haros_model_with_chris_model(bank_type, haros_model, chris_model) ==
    LET valueLog ==
            IF ValueTruthy(haros_model.value)
            THEN (IF ValueStr(haros_model.value) # ChrisValueStr(chris_model.value)
                  THEN {"conflict"} ELSE {})
                 \cup (IF <<ValueType(haros_model.value)>> # chris_model.python_type
                       THEN {"conflict_type"} ELSE {})
            ELSE {}
        m1 == IF Truthy(haros_model.launch)
              THEN [chris_model EXCEPT !.launch_file = haros_model.launch]
              ELSE chris_model
        m2 == IF Truthy(haros_model.node_scope)
              THEN [m1 EXCEPT !.is_node_scope = haros_model.node_scope]
              ELSE m1
        r == merge_haros_parameter_links_with_chris_parameter_nodes(haros_model, m2)
    IN  Res(r.m,
            Truthy(haros_model.launch) \/ Truthy(haros_model.node_scope) \/ r.updated,
            valueLog \cup r.log, r.crash)

\* ParameterBank._create_entity: Parameter.__new__ (no launch_file, no is_node_scope)
Parameter_create_entity(name) ==
    [name |-> name, source |-> SrcNone, version |-> 0, python_type |-> NoneV,
     value |-> NoneV, launch_file |-> Absent, is_node_scope |-> Absent,
     setting_node_names |-> {}, reading_node_names |-> {}]

Parameter_helper_populate_new_chris_model(bank_type, haros_model, new_chris_model_instance) ==
    LET m0 == IF ValueTruthy(haros_model.value)
              THEN [new_chris_model_instance EXCEPT
                        !.value = ValueStr(haros_model.value),
                        !.python_type = <<ValueType(haros_model.value)>>]
              ELSE new_chris_model_instance
        m1 == IF Truthy(haros_model.launch)
              THEN [m0 EXCEPT !.launch_file = haros_model.launch] ELSE m0
        m2 == IF Truthy(haros_model.node_scope)
              THEN [m1 EXCEPT !.is_node_scope = haros_model.node_scope] ELSE m1
        r == merge_haros_parameter_links_with_chris_parameter_nodes(haros_model,
                 [m2 EXCEPT !.setting_node_names = {}, !.reading_node_names = {}])
    IN  Res(r.m, r.updated, r.log, r.crash)


(***************************************************************************)
(* NodeRemodeler                                                           *)
(***************************************************************************)
BondStatus == <<"bond", "/", "Status">>

topic_is_part_of_action(topic_name) ==
    LET i == LastIndexOf(topic_name, "/")
        topic_name_suffix == <<"/">> \o SubSeq(topic_name, i + 1, Len(topic_name))
        topic_name_base == IF i = 0 THEN <<>> ELSE SubSeq(topic_name, 1, i - 1)
    IN  /\ topic_name_base \in DOMAIN actionBank
        /\ topic_name_suffix \in actionBank[topic_name_base]

\* a variant in which the type of the link replaces the type that the map holds
RECURSIVE merge_links_overwriting_types(_, _)
merge_links_overwriting_types(links, names_to_types) ==
    IF links = <<>> THEN Acc(names_to_types, FALSE, {}, FALSE)
    ELSE LET n == Head(links)[1]
             ty == Head(links)[2]
             rest == merge_links_overwriting_types(
                         Tail(links),
                         IF check_haros_name_is_complete(n)
                         THEN Put(names_to_types, n, ty) ELSE names_to_types)
         IN  IF ~check_haros_name_is_complete(n)
             THEN [rest EXCEPT !.log = @ \cup {"incomplete"}]
             ELSE IF n \in DOMAIN names_to_types
             THEN IF ty # names_to_types[n]
                  THEN [rest EXCEPT !.log = @ \cup {"conflict"}] ELSE rest
             ELSE [rest EXCEPT !.updated = TRUE, !.log = @ \cup {"add"}]

merge_haros_node_links_with_chris_node_services(haros_node_model_links, chris_node_model_services) ==
    AddNamesToTypes(haros_node_model_links, Acc(chris_node_model_services, FALSE, {}, FALSE))

merge_haros_node_links_with_chris_node_parameters(haros_node_model_links, chris_node_model_parameters) ==
    AddNamesToTypes(haros_node_model_links, Acc(chris_node_model_parameters, FALSE, {}, FALSE))

\* one of the two loops of _merge_haros_node_links_with_chris_node_topics
RECURSIVE AddNodeTopics(_, _)
AddNodeTopics(links, acc) ==
    IF links = <<>> THEN acc
    ELSE LET n == Head(links)[1]
             ty == Head(links)[2]
             next ==
                IF ~check_haros_name_is_complete(n)
                THEN [acc EXCEPT !.log = @ \cup {"incomplete"}]
                ELSE IF n \in DOMAIN acc.c
                THEN IF ty # acc.c[n] THEN [acc EXCEPT !.log = @ \cup {"conflict"}] ELSE acc
                ELSE IF ~topic_is_part_of_action(n)
                THEN IF ty # BondStatus
                     THEN Acc(Put(acc.c, n, ty), TRUE, acc.log \cup {"add"}, acc.crash)
                     ELSE [acc EXCEPT !.log = @ \cup {"bond"}]
                ELSE acc
         IN  AddNodeTopics(Tail(links), next)

merge_haros_node_links_with_chris_node_topics(bank_type, haros_node_model, chris_node_model) ==
    LET p == AddNodeTopics(haros_node_model.publishers,
                           Acc(chris_node_model.published_topic_names, FALSE, {}, FALSE))
        q == AddNodeTopics(haros_node_model.subscribers,
                           Acc(chris_node_model.subscribed_topic_names, FALSE, {}, FALSE))
    IN  Res([chris_node_model EXCEPT !.published_topic_names = p.c,
                                     !.subscribed_topic_names = q.c],
            p.updated \/ q.updated, p.log \cup q.log, FALSE)

Node_helper_merge_haros_model_with_chris_model(bank_type, haros_model, chris_model) ==
    LET m1 == IF ~Truthy(chris_model.node)
              THEN [chris_model EXCEPT !.node = haros_model.node_name] ELSE chris_model
        m2 == IF ~Truthy(chris_model.cmdline)
              THEN [m1 EXCEPT !.cmdline = haros_model.argv] ELSE m1
        m3 == IF Truthy(haros_model.launch)
              THEN [m2 EXCEPT !.launch_file = haros_model.launch] ELSE m2
        w == merge_haros_node_links_with_chris_node_parameters(
                 haros_model.writes, chris_model.set_parameter_names)
        r == merge_haros_node_links_with_chris_node_parameters(
                 haros_model.reads, chris_model.read_parameter_names)
        sv == merge_haros_node_links_with_chris_node_services(
                 haros_model.servers, chris_model.provided_services)
        cl == merge_haros_node_links_with_chris_node_services(haros_model.clients, EmptyDict)
        m4 == [m3 EXCEPT !.set_parameter_names = w.c, !.read_parameter_names = r.c,
                         !.provided_services = sv.c]
        m5 == IF cl.updated
              THEN [m4 EXCEPT !.has_client_services = TRUE, !.client_services = cl.c]
              ELSE m4
        t == merge_haros_node_links_with_chris_node_topics(bank_type, haros_model, m5)
    IN  Res(t.m,
            \/ ~Truthy(chris_model.node) \/ ~Truthy(chris_model.cmdline)
            \/ Truthy(haros_model.launch)
            \/ w.updated \/ r.updated \/ sv.updated \/ cl.updated \/ t.updated,
            w.log \cup r.log \cup sv.log \cup cl.log \cup t.log, FALSE)

\* NodeBank._create_entity: Node.__new__ (no launch_file, no client_services)
Node_create_entity(name) ==
    [name |-> name, source |-> SrcNone, version |-> 0,
     node |-> NoneV, cmdline |-> NoneV, launch_file |-> Absent,
     set_parameter_names |-> EmptyDict, read_parameter_names |-> EmptyDict,
     provided_services |-> EmptyDict,
     has_client_services |-> FALSE, client_services |-> EmptyDict,
     published_topic_names |-> EmptyDict, subscribed_topic_names |-> EmptyDict]

\* a variant that ignores the nodelet class
Node_create_in_node_bank(haros_instance) == "NODE"

\* NodeRemodeler._create_new_chris_model: the bank of the new entity
Node_create_new_chris_model(haros_instance) ==
    IF Truthy(haros_instance.nodelet_class) THEN "NODELET" ELSE "NODE"

Node_helper_populate_new_chris_model(bank_type, haros_model, new_chris_model_instance) ==
    LET m1 == [new_chris_model_instance EXCEPT !.node = haros_model.node_name,
                                               !.cmdline = haros_model.argv]
        m3 == IF Truthy(haros_model.launch)
              THEN [m1 EXCEPT !.launch_file = haros_model.launch] ELSE m1
        w == merge_haros_node_links_with_chris_node_parameters(
                 haros_model.writes, m3.set_parameter_names)
        r == merge_haros_node_links_with_chris_node_parameters(
                 haros_model.reads, m3.read_parameter_names)
        sv == merge_haros_node_links_with_chris_node_services(
                 haros_model.servers, m3.provided_services)
        cl == merge_haros_node_links_with_chris_node_services(haros_model.clients, EmptyDict)
        m5 == [m3 EXCEPT !.set_parameter_names = w.c, !.read_parameter_names = r.c,
                         !.provided_services = sv.c,
                         !.has_client_services = TRUE, !.client_services = cl.c]
        t == merge_haros_node_links_with_chris_node_topics(bank_type, haros_model, m5)
    IN  Res(t.m, TRUE, w.log \cup r.log \cup sv.log \cup cl.log \cup t.log, FALSE)


(***************************************************************************)
(* NodeSpecificationRemodeler                                              *)
(***************************************************************************)
\* a collection attribute that is None or a dict
NoneDict == [isNone |-> TRUE, val |-> EmptyDict]
SomeDict(d) == [isNone |-> FALSE, val |-> d]

NodeSpec_adjust_haros_name(haros_name) == Remove(haros_name, "node:")

\* type.replace('double', 'float').replace('string', 'str')
ParameterType(type) ==
    [i \in DOMAIN type |-> IF type[i] = "double" THEN "float"
                           ELSE IF type[i] = "string" THEN "str" ELSE type[i]]

\* "name in None" raises TypeError at the first complete name
merge_haros_node_calls_with_chris_node_services(haros_node_model_calls, chris_node_model_services) ==
    IF chris_node_model_services.isNone
    THEN Acc(chris_node_model_services, FALSE,
             UNION {IncompleteLog(haros_node_model_calls[i][1]) : i \in DOMAIN haros_node_model_calls},
             \E i \in DOMAIN haros_node_model_calls :
                 check_haros_name_is_complete(haros_node_model_calls[i][1]))
    ELSE LET r == AddNamesToTypes(haros_node_model_calls,
                                  Acc(chris_node_model_services.val, FALSE, {}, FALSE))
         IN  Acc(SomeDict(r.c), r.updated, r.log, FALSE)

merge_haros_node_calls_with_chris_node_parameters(haros_node_model_written_param_calls, haros_node_model_read_param_calls, chris_node_model_parameters) ==
    LET calls == haros_node_model_written_param_calls \o haros_node_model_read_param_calls
        typed == [i \in DOMAIN calls |-> <<calls[i][1], ParameterType(calls[i][2])>>]
        start == IF \E i \in DOMAIN calls : check_haros_name_is_complete(calls[i][1])
                 THEN (IF chris_node_model_parameters.isNone THEN EmptyDict
                       ELSE chris_node_model_parameters.val)
                 ELSE EmptyDict
        r == AddNamesToTypes(typed, Acc(start, FALSE, {}, FALSE))
    IN  IF \E i \in DOMAIN calls : check_haros_name_is_complete(calls[i][1])
        THEN Acc(SomeDict(r.c), r.updated, r.log, FALSE)
        ELSE Acc(chris_node_model_parameters, FALSE, r.log, FALSE)

\* one of the two call types of _merge_haros_node_calls_with_chris_node_topics
NodeSpecTopics(haros_calls, chris_node_model_topics) ==
    LET topics == IF haros_calls # <<>> /\ chris_node_model_topics.isNone
                  THEN SomeDict(EmptyDict) ELSE chris_node_model_topics
        named == [i \in DOMAIN haros_calls |->
                     <<LastToken(haros_calls[i][1], "/"), haros_calls[i][2]>>]
        r == AddNamesToTypes(named, Acc(topics.val, FALSE, {}, FALSE))
    IN  IF haros_calls = <<>> THEN Acc(chris_node_model_topics, FALSE, {}, FALSE)
        ELSE Acc(SomeDict(r.c), r.updated, r.log, FALSE)

merge_haros_node_calls_with_chris_node_topics(haros_node_model, chris_node_model) ==
    LET p == NodeSpecTopics(haros_node_model.advertise, chris_node_model.published_topics)
        q == NodeSpecTopics(haros_node_model.subscribe, chris_node_model.subscribed_topics)
    IN  Res([chris_node_model EXCEPT !.published_topics = p.c, !.subscribed_topics = q.c],
            p.updated \/ q.updated, p.log \cup q.log, FALSE)

NodeSpec_helper_merge_haros_model_with_chris_model(bank_type, haros_model, chris_model) ==
    LET conflict == IF haros_model.package # chris_model.package THEN {"conflict"} ELSE {}
        pa == merge_haros_node_calls_with_chris_node_parameters(
                  haros_model.write_param, haros_model.read_param, chris_model.parameters)
        sv == merge_haros_node_calls_with_chris_node_services(
                  haros_model.service, chris_model.services_provided)
        cl == merge_haros_node_calls_with_chris_node_services(
                  haros_model.client, SomeDict(EmptyDict))
        m1 == [chris_model EXCEPT !.parameters = pa.c]
        m2 == [m1 EXCEPT !.services_provided = sv.c]
        m3 == IF cl.updated
              THEN [m2 EXCEPT !.has_client_services = TRUE, !.client_services = cl.c.val]
              ELSE m2
        t == merge_haros_node_calls_with_chris_node_topics(haros_model, m3)
    IN  IF sv.crash THEN Res(m1, pa.updated, conflict \cup pa.log \cup sv.log, TRUE)
        ELSE Res(t.m, pa.updated \/ sv.updated \/ cl.updated \/ t.updated,
                 conflict \cup pa.log \cup sv.log \cup cl.log \cup t.log, FALSE)

\* NodeSpecificationBank._create_entity: NodeSpecification.__new__
NodeSpec_create_entity(name) ==
    [name |-> name, source |-> SrcNone, version |-> 0, package |-> NoneV,
     parameters |-> NoneDict, services_provided |-> NoneDict,
     has_client_services |-> FALSE, client_services |-> EmptyDict,
     published_topics |-> NoneDict, subscribed_topics |-> NoneDict]

NodeSpec_helper_populate_new_chris_model(bank_type, haros_model, new_chris_model_instance) ==
    LET pa == merge_haros_node_calls_with_chris_node_parameters(
                  haros_model.write_param, haros_model.read_param,
                  new_chris_model_instance.parameters)
        sv == merge_haros_node_calls_with_chris_node_services(
                  haros_model.service, SomeDict(EmptyDict))
        cl == merge_haros_node_calls_with_chris_node_services(
                  haros_model.client, SomeDict(EmptyDict))
        m == [new_chris_model_instance EXCEPT
                  !.package = haros_model.package, !.parameters = pa.c,
                  !.services_provided = sv.c,
                  !.has_client_services = TRUE, !.client_services = cl.c.val,
                  !.published_topics = SomeDict(EmptyDict),
                  !.subscribed_topics = SomeDict(EmptyDict)]
        t == merge_haros_node_calls_with_chris_node_topics(haros_model, m)
    IN  Res(t.m, TRUE, pa.log \cup sv.log \cup cl.log \cup t.log, FALSE)


(***************************************************************************)
(* PackageSpecificationRemodeler                                           *)
(***************************************************************************)
PackageSpec_adjust_haros_name(haros_name) == Remove(haros_name, "package:")

\* "for name in names: if complete(name) and name not in members: target.append(name)";
\* the list tested is the target itself (inTarget) or the list members
RECURSIVE AppendNames(_, _, _, _)
AppendNames(names, inTarget, members, acc) ==
    IF names = <<>> THEN acc
    ELSE LET n == Head(names)
             next ==
                IF ~check_haros_name_is_complete(n)
                THEN [acc EXCEPT !.log = @ \cup {"incomplete"}]
                ELSE IF n \notin Range(IF inTarget THEN acc.c ELSE members)
                THEN Acc(Append(acc.c, n), TRUE, acc.log \cup {"add"}, acc.crash)
                ELSE acc
         IN  AppendNames(Tail(names), inTarget, members, next)

helper_merge_haros_dependencies_with_chris_model(haros_model, chris_model) ==
    LET r == AppendNames(haros_model.dependencies, TRUE, <<>>,
                         Acc(chris_model.dependencies, FALSE, {}, FALSE))
    IN  Res([chris_model EXCEPT !.dependencies = r.c], r.updated, r.log, FALSE)

\* the names that are not in chris_model.nodes are appended to chris_model.dependencies
helper_merge_haros_nodes_with_chris_model(haros_model, chris_model) ==
    LET r == AppendNames(haros_model.nodes, FALSE, chris_model.nodes,
                         Acc(chris_model.dependencies, FALSE, {}, FALSE))
    IN  Res([chris_model EXCEPT !.dependencies = r.c], r.updated, r.log, FALSE)

PackageSpec_helper_merge_haros_model_with_chris_model(bank_type, haros_model, chris_model) ==
    LET pathLog == IF Truthy(haros_model.path) /\ haros_model.path # chris_model.directory_path
                   THEN {"conflict_path"} ELSE {}
        versionLog == IF Truthy(haros_model.version)
                         /\ haros_model.version # chris_model.installed_version
                      THEN {"conflict_version"} ELSE {}
        metaLog == IF haros_model.is_metapackage # chris_model.is_metapackage
                   THEN {"conflict_metapackage"} ELSE {}
        urlConflict == Truthy(chris_model.url) /\ haros_model.vcs_url # chris_model.url
        urlSet == Truthy(haros_model.vcs_url) /\ ~urlConflict
        urlLog == IF Truthy(haros_model.vcs_url) /\ urlConflict THEN {"conflict"} ELSE {}
        m1 == IF urlSet THEN [chris_model EXCEPT !.url = haros_model.vcs_url] ELSE chris_model
        d == helper_merge_haros_dependencies_with_chris_model(haros_model, m1)
        n == helper_merge_haros_nodes_with_chris_model(haros_model, d.m)
        m2 == IF Truthy(haros_model.description)
              THEN [n.m EXCEPT !.description = Strip(haros_model.description)] ELSE n.m
    IN  Res(m2, urlSet \/ d.updated \/ n.updated \/ Truthy(haros_model.description),
            pathLog \cup versionLog \cup metaLog \cup urlLog \cup d.log \cup n.log, FALSE)

\* PackageSpecificationBank._create_entity: PackageSpecification.__new__ (no description)
PackageSpec_create_entity(name) ==
    [name |-> name, source |-> SrcNone, version |-> 0, directory_path |-> NoneV,
     installed_version |-> NoneV, is_metapackage |-> PyFalse, url |-> NoneV,
     description |-> Absent, dependencies |-> <<>>, nodes |-> <<>>]

PackageSpec_helper_populate_new_chris_model(bank_type, haros_model, new_chris_model_instance) ==
    LET m1 == [new_chris_model_instance EXCEPT
                   !.directory_path = haros_model.path,
                   !.installed_version = haros_model.version,
                   !.is_metapackage = haros_model.is_metapackage,
                   !.url = haros_model.vcs_url,
                   !.dependencies = <<>>, !.nodes = <<>>]
        d == helper_merge_haros_dependencies_with_chris_model(haros_model, m1)
        n == helper_merge_haros_nodes_with_chris_model(haros_model, d.m)
        m2 == IF Truthy(haros_model.description)
              THEN [n.m EXCEPT !.description = Strip(haros_model.description)] ELSE n.m
    IN  Res(m2, TRUE, d.log \cup n.log, FALSE)

(***************************************************************************)
(* ServiceSpecificationRemodeler                                           *)
(***************************************************************************)
ServiceSpec_helper_merge_haros_model_with_chris_model(bank_type, haros_model, chris_model) ==
    Res(chris_model, FALSE, {"no_merge"}, FALSE)

\* ServiceSpecificationBank._create_entity: the fields of a fresh entity the merger reads
ServiceSpec_create_entity(name) == NewEntity(name)

ServiceSpec_helper_populate_new_chris_model(bank_type, haros_model, new_chris_model_instance) ==
    Res(new_chris_model_instance, TRUE, {"no_population"}, FALSE)


(***************************************************************************)
(* The inputs of the merger: the CHRIS banks that were loaded, and the     *)
(* HAROS instances that a remodeler may meet.                              *)
(***************************************************************************)
N1 == <<"/", "n1">>
N2 == <<"/", "n2">>
N3 == <<"/", "n3">>
TyA == <<"pkg", "/", "A">>
TyB == <<"pkg", "/", "B">>
L1 == <<"/", "a", ".launch">>
L2 == <<"/", "b", ".launch">>
\* names that HAROS could not resolve
IncompleteNames == {<<"?">>, <<" ", "?", " ">>, <<"/", "ns", "/", "?">>, <<"/", "ns", "/", "?", " ">>}
Unknown == <<"/", "ns", "/", "?">>

SNAPSHOT == SrcStr(<<"ros_snapshot">>)
SNAPSHOT_LIST == SrcList(<< <<"ros_snapshot">> >>)
PACKAGE_MODELER == SrcStr(<<"package_modeler">>)

Kinds == {"node", "topic", "service", "parameter",
          "node_specification", "package_specification", "service_specification"}

\* BaseRemodeler._chris_model_banks of each remodeler
chris_model_banks(k) ==
    CASE k = "node" -> {"NODE", "NODELET", "NODELET_MANAGER"}
      [] k = "topic" -> {"TOPIC"}
      [] k = "service" -> {"SERVICE"}
      [] k = "parameter" -> {"PARAMETER"}
      [] k = "node_specification" -> {"NODE_SPECIFICATION"}
      [] k = "package_specification" -> {"PACKAGE_SPECIFICATION"}
      [] k = "service_specification" -> {"SERVICE_SPECIFICATION"}

Dict1(k, v) == Put(EmptyDict, k, v)

\* the topics of the action /act in the CHRIS action bank
InitActionBank ==
    Dict1(<<"/", "act">>, {<<"/", x>> : x \in {"cancel", "goal", "feedback", "result", "status"}})

InitTopicBank ==
    Dict1(N1, [Topic_create_entity(N1) EXCEPT !.source = SNAPSHOT, !.construct_type = TyA,
                                              !.publisher_node_names = {N1}])

HarosTopic(i, t, pb, sb) == [id |-> i, type |-> t, publishers |-> pb, subscribers |-> sb]

HarosTopics ==
    {HarosTopic(N1, t, pb, <<>>) : t \in {TyA, TyB}, pb \in {<<>>, <<N1>>, <<Unknown, N2>>}}
    \cup {HarosTopic(N1, TyB, <<>>, <<N1>>)}
    \cup {HarosTopic(N3, TyB, pb, <<>>) : pb \in {<<>>, <<N2>>}}
    \cup {HarosTopic(i, TyA, <<N1>>, <<>>) : i \in IncompleteNames}
    \* the goal topic of the action /act, which HAROS lists as a topic
    \cup {HarosTopic(<<"/", "act", "/", "goal">>, TyA, <<>>, <<>>)}

InitServiceBank ==
    Dict1(N1, [Service_create_entity(N1) EXCEPT !.source = SNAPSHOT_LIST, !.construct_type = TyA,
                                                !.service_provider_node_names = {N1}])

HarosService(i, t, sv, cl) == [id |-> i, type |-> t, server |-> sv, clients |-> cl]

HarosServices ==
    {HarosService(N1, t, sv, cl) :
        t \in {TyA, TyB}, sv \in {NoneV, N2}, cl \in {<<>>, <<N2, NoneV>>}}
    \cup {HarosService(N3, TyA, N2, <<Unknown>>), HarosService(Unknown, TyA, N1, <<>>),
          HarosService(N1, TyA, NoneV, <<N1>>)}

InitParameterBank ==
    Dict1(N1, [Parameter_create_entity(N1) EXCEPT
                  !.source = SNAPSHOT, !.python_type = <<"str">>, !.value = <<"x">>,
                  !.setting_node_names = {N1}])

HarosParameter(i, v, l, ns, r) ==
    [id |-> i, value |-> v, launch |-> l, node_scope |-> ns, writes |-> <<>>, reads |-> r]

HarosParameters ==
    {HarosParameter(N1, NoneV, l, PyFalse, <<>>) : l \in {NoneV, L1, L2}}
    \cup {HarosParameter(N1, v, NoneV, PyFalse, <<>>) :
            v \in {<<"int", <<"1">> >>, <<"str", <<"x", " ">> >>}}
    \cup {HarosParameter(N1, NoneV, NoneV, PyTrue, <<>>),
          HarosParameter(N3, <<"int", <<"1">> >>, NoneV, PyFalse, <<N2, Unknown>>),
          HarosParameter(<<"?">>, NoneV, L1, PyTrue, <<>>)}

Cls == <<"pkg", "/", "Cls">>
ActGoal == <<"/", "act", "/", "goal">>
BondTopic == <<"/", "mgr", "/", "bond">>

\* the names of parameters and of services
P1 == <<"/", "p1">>
P2 == <<"/", "p2">>
S1 == <<"/", "s1">>
S2 == <<"/", "s2">>

InitNodeBanks ==
    [b \in chris_model_banks("node") |->
        CASE b = "NODE" ->
                Dict1(N1, [Node_create_entity(N1) EXCEPT
                              !.source = SNAPSHOT, !.node = <<"n1">>, !.cmdline = <<"n1">>,
                              !.published_topic_names = Dict1(N1, NoneV)])
          [] b = "NODELET" -> EmptyDict
          [] b = "NODELET_MANAGER" ->
                Dict1(N2, [Node_create_entity(N2) EXCEPT
                              !.source = SNAPSHOT, !.node = <<"n2">>, !.cmdline = <<"n2">>,
                              !.set_parameter_names = Dict1(P1, <<"str">>),
                              !.read_parameter_names = Dict1(P1, <<"str">>),
                              !.provided_services = Dict1(S1, TyA)])]

HarosNode(i, nc, l, cl, pb) ==
    [id |-> i, node_name |-> <<"exe">>, nodelet_class |-> nc, argv |-> <<"exe">>,
     launch |-> l, writes |-> <<>>, reads |-> <<>>, servers |-> <<>>, clients |-> cl,
     publishers |-> pb, subscribers |-> <<>>]

\* a HAROS node with the parameters that it writes and reads and the services
\* that it serves, each with the name of its parent
HarosNodeLinks(i, wr, rd, sv) ==
    [HarosNode(i, Cls, NoneV, <<>>, <<>>) EXCEPT !.writes = wr, !.reads = rd, !.servers = sv]

HarosNodes ==
    {HarosNode(N1, NoneV, l, <<>>, <<>>) : l \in {NoneV, L1, L2}}
    \cup {HarosNodeLinks(N2, << <<P1, <<"int">> >> >>, <<>>, <<>>),
          HarosNodeLinks(N2, << <<P1, <<"int">> >>, <<P2, <<"int">> >> >>,
                             << <<P2, <<"int">> >>, <<Unknown, <<"int">> >>,
                                <<P1, <<"str">> >> >>,
                             << <<S1, TyB>>, <<S2, TyB>> >>)}
    \cup {HarosNode(N1, NoneV, NoneV, <<>>,
                    << <<N1, TyA>>, <<ActGoal, TyA>>, <<Unknown, TyA>>,
                       <<BondTopic, BondStatus>>, <<N2, TyA>> >>),
          HarosNode(N2, Cls, NoneV, <<>>, <<>>)}
    \cup {HarosNode(N3, nc, L1, << <<N1, TyA>> >>, <<>>) : nc \in {NoneV, Cls}}
    \cup {HarosNode(i, Cls, L1, <<>>, <<>>) : i \in IncompleteNames}

InitNodeSpecificationBank ==
    Dict1(<<"pkg", "/", "n1">>,
          [NodeSpec_create_entity(<<"pkg", "/", "n1">>) EXCEPT
              !.source = PACKAGE_MODELER, !.package = <<"pkg">>])

HarosNodeSpec(i, pk, wp, sv, ad) ==
    [id |-> i, package |-> pk, write_param |-> wp, read_param |-> <<>>,
     service |-> sv, client |-> <<>>, advertise |-> ad, subscribe |-> <<>>]

HarosNodeSpecifications ==
    {HarosNodeSpec(<<"node:", "pkg", "/", "n1">>, pk, <<>>, <<>>, <<>>) :
        pk \in {<<"pkg">>, <<"other">>}}
    \cup {HarosNodeSpec(<<"node:", "pkg", "/", "n1">>, <<"pkg">>, <<>>, <<>>, ad) :
        ad \in {<< <<Unknown, TyA>> >>, << <<N1, TyA>> >>}}
    \cup {HarosNodeSpec(<<"node:", "pkg", "/", "n1">>, <<"pkg">>,
                        << <<<<"rate">>, <<"double">>>> >>, <<>>, <<>>),
          HarosNodeSpec(<<"node:", "pkg", "/", "n1">>, <<"pkg">>, <<>>,
                        << <<Unknown, TyA>>, <<N1, TyA>> >>, <<>>),
          HarosNodeSpec(<<"node:", "pkg", "/", "n3">>, <<"pkg">>, <<>>,
                        << <<N1, TyA>> >>, << <<N1, TyB>> >>),
          HarosNodeSpec(<<"node:", "pkg", "/", "?">>, <<"pkg">>, <<>>, <<>>, <<>>)}

InitPackageSpecificationBank ==
    Dict1(<<"pkg">>,
          [PackageSpec_create_entity(<<"pkg">>) EXCEPT
              !.source = PACKAGE_MODELER, !.directory_path = <<"/", "pkg">>,
              !.installed_version = <<"1.0">>,
              !.dependencies = << <<"dep">> >>, !.nodes = << <<"n1">> >>])

HarosPackage(i, u, dp, nd, ds) ==
    [id |-> i, path |-> <<"/", "pkg">>, version |-> <<"1.0">>, is_metapackage |-> PyFalse,
     vcs_url |-> u, dependencies |-> dp, nodes |-> nd, description |-> ds]

HarosPackages ==
    {HarosPackage(<<"package:", "pkg">>, u, <<>>, <<>>, NoneV) :
        u \in {NoneV, <<"url1">>, <<"url2">>}}
    \cup {HarosPackage(<<"package:", "pkg">>, NoneV, <<>>, <<>>, ds) :
        ds \in {<<"old">>, <<" ", "new">>}}
    \cup {HarosPackage(<<"package:", "pkg">>, NoneV, << <<"dep">>, <<"?">> >>, << <<"n1">> >>, NoneV),
          HarosPackage(<<"package:", "pkg">>, NoneV, <<>>, << <<"n2">> >>, NoneV),
          HarosPackage(<<"package:", "new">>, <<"url1">>, << <<"dep">> >>, <<>>, <<"new">>),
          HarosPackage(<<"package:", "?">>, NoneV, <<>>, <<>>, <<"new">>)}

InitServiceSpecificationBank ==
    Dict1(TyA, [ServiceSpec_create_entity(TyA) EXCEPT !.source = PACKAGE_MODELER])

HarosServiceSpecifications ==
    {[id |-> i, type |-> i] : i \in {TyA, TyB, <<"?">>}}

(***************************************************************************)
(* BaseRemodeler.remodel(): one iteration of its loop is one step.         *)
(***************************************************************************)
\* self._haros_model_instances of each remodeler
haros_model_instances(k) ==
    CASE k = "node" -> HarosNodes
      [] k = "topic" -> HarosTopics
      [] k = "service" -> HarosServices
      [] k = "parameter" -> HarosParameters
      [] k = "node_specification" -> HarosNodeSpecifications
      [] k = "package_specification" -> HarosPackages
      [] k = "service_specification" -> HarosServiceSpecifications

InitBanks(k) ==
    CASE k = "node" -> InitNodeBanks
      [] k = "topic" -> [b \in {"TOPIC"} |-> InitTopicBank]
      [] k = "service" -> [b \in {"SERVICE"} |-> InitServiceBank]
      [] k = "parameter" -> [b \in {"PARAMETER"} |-> InitParameterBank]
      [] k = "node_specification" -> [b \in {"NODE_SPECIFICATION"} |-> InitNodeSpecificationBank]
      [] k = "package_specification" ->
            [b \in {"PACKAGE_SPECIFICATION"} |-> InitPackageSpecificationBank]
      [] k = "service_specification" ->
            [b \in {"SERVICE_SPECIFICATION"} |-> InitServiceSpecificationBank]

\* the banks of a model file: those above, and for the node remodeler also
\* banks in which the nodelet bank and the nodelet manager bank hold one name
InitBankChoices(k) ==
    {InitBanks(k)}
    \cup (IF k = "node"
          THEN {[InitNodeBanks EXCEPT
                    !["NODELET"] = Dict1(N2, InitNodeBanks["NODELET_MANAGER"][N2])]}
          ELSE {})

adjust_haros_name(k, haros_name) ==
    CASE k = "node_specification" -> NodeSpec_adjust_haros_name(haros_name)
      [] k = "package_specification" -> PackageSpec_adjust_haros_name(haros_name)
      [] OTHER -> haros_name

helper_merge_haros_model_with_chris_model(k, bank_type, haros_model, chris_model) ==
    CASE k = "node" ->
            Node_helper_merge_haros_model_with_chris_model(bank_type, haros_model, chris_model)
      [] k = "topic" ->
            Topic_helper_merge_haros_model_with_chris_model(bank_type, haros_model, chris_model)
      [] k = "service" ->
            Service_helper_merge_haros_model_with_chris_model(bank_type, haros_model, chris_model)
      [] k = "parameter" ->
            Parameter_helper_merge_haros_model_with_chris_model(bank_type, haros_model, chris_model)
      [] k = "node_specification" ->
            NodeSpec_helper_merge_haros_model_with_chris_model(bank_type, haros_model, chris_model)
      [] k = "package_specification" ->
            PackageSpec_helper_merge_haros_model_with_chris_model(bank_type, haros_model, chris_model)
      [] k = "service_specification" ->
            ServiceSpec_helper_merge_haros_model_with_chris_model(bank_type, haros_model, chris_model)

\* _BankMetamodel.__getitem__ on a name that the bank does not hold
create_entity(k, name) ==
    CASE k = "node" -> Node_create_entity(name)
      [] k = "topic" -> Topic_create_entity(name)
      [] k = "service" -> Service_create_entity(name)
      [] k = "parameter" -> Parameter_create_entity(name)
      [] k = "node_specification" -> NodeSpec_create_entity(name)
      [] k = "package_specification" -> PackageSpec_create_entity(name)
      [] k = "service_specification" -> ServiceSpec_create_entity(name)

\* the bank type that _create_new_chris_model returns
create_new_chris_model(k, haros_instance) ==
    IF k = "node" THEN Node_create_new_chris_model(haros_instance)
    ELSE CHOOSE b \in chris_model_banks(k) : TRUE

helper_populate_new_chris_model(k, bank_type, haros_model, new_chris_model_instance) ==
    CASE k = "node" ->
            Node_helper_populate_new_chris_model(bank_type, haros_model, new_chris_model_instance)
      [] k = "topic" ->
            Topic_helper_populate_new_chris_model(bank_type, haros_model, new_chris_model_instance)
      [] k = "service" ->
            Service_helper_populate_new_chris_model(bank_type, haros_model, new_chris_model_instance)
      [] k = "parameter" ->
            Parameter_helper_populate_new_chris_model(bank_type, haros_model, new_chris_model_instance)
      [] k = "node_specification" ->
            NodeSpec_helper_populate_new_chris_model(bank_type, haros_model, new_chris_model_instance)
      [] k = "package_specification" ->
            PackageSpec_helper_populate_new_chris_model(bank_type, haros_model, new_chris_model_instance)
      [] k = "service_specification" ->
            ServiceSpec_helper_populate_new_chris_model(bank_type, haros_model, new_chris_model_instance)

\* the result of a merge, given what the helper (r) and the version update (v) returned
MergeResult(r, v) == Res(v.m, r.updated, r.log \cup v.log, FALSE)

\* the call of _update_chris_model_version that follows the helper, unless an
\* exception left the helper
UpdateAfterHelper(r) ==
    IF r.crash THEN r ELSE MergeResult(r, update_chris_model_version(r.m, r.updated))

merge_haros_model_with_chris_model(k, bank_type, haros_model, chris_model) ==
    UpdateAfterHelper(
        helper_merge_haros_model_with_chris_model(k, bank_type, haros_model, chris_model))

\* _populate_new_chris_model, then _initialize_chris_model_version unless an
\* exception left the helper
InitializeAfterHelper(r) ==
    IF r.crash THEN r ELSE [r EXCEPT !.m = initialize_chris_model_version(@)]

populate_new_chris_model(k, bank_type, haros_model, new_chris_model_instance) ==
    InitializeAfterHelper(
        helper_populate_new_chris_model(k, bank_type, haros_model, new_chris_model_instance))

\* the record of a loop iteration: what it did (op), on which entity, with which
\* HAROS instance, what the helper returned and what was logged
Last(op, bank, name, h, updated, log) ==
    [op |-> op, bank |-> bank, name |-> name, h |-> h, updated |-> updated, log |-> log]

MergerInit ==
    /\ kind \in Kinds
    /\ chris \in InitBankChoices(kind)
    /\ bankOrder \in IterationOrders(chris_model_banks(kind))
    /\ actionBank = InitActionBank
    /\ crashed = FALSE
    /\ last = Last("none", "", <<>>, <<>>, FALSE, {})
    \* the snapshot tool does not run while the merger does
    /\ topicBank = EmptyDict /\ actions = EmptyDict /\ apc = "idle"
    /\ node = EmptyDict /\ npc = "idle"
    /\ LaterIdle

\* the name is incomplete: an ERROR is logged and the loop goes on
Skip(h) ==
    \E haros_instance_name \in {adjust_haros_name(kind, h.id)} :
        /\ ~crashed
        /\ ~check_haros_name_is_complete(haros_instance_name)
        /\ last' = Last("skip", "", haros_instance_name, h, FALSE,
                        IncompleteLog(haros_instance_name))
        /\ UNCHANGED <<kind, chris, actionBank, crashed, bankOrder, actionVars, nodeVars, laterVars>>

\* a variant in which the loop has no break: the last bank, in the order of
\* the dict, that holds the name
last_bank_with(order, banks, name) ==
    IF \A i \in 1..Len(order) : name \notin DOMAIN banks[order[i]] THEN ""
    ELSE order[CHOOSE i \in 1..Len(order) :
                  /\ name \in DOMAIN banks[order[i]]
                  /\ \A j \in (i + 1)..Len(order) : name \notin DOMAIN banks[order[j]]]

\* the loop over chris_model_banks.keys() with its break: the first bank,
\* in the order of the dict, that holds the name ('' when none does)
first_bank_with(order, banks, name) ==
    IF \A i \in 1..Len(order) : name \notin DOMAIN banks[order[i]] THEN ""
    ELSE order[CHOOSE i \in 1..Len(order) :
                  /\ name \in DOMAIN banks[order[i]]
                  /\ \A j \in 1..(i - 1) : name \notin DOMAIN banks[order[j]]]

\* the name is in the bank b, the first that holds it: the HAROS instance is
\* merged into the entity
Merge(h, b) ==
    \E haros_instance_name \in {adjust_haros_name(kind, h.id)} :
        /\ ~crashed
        /\ check_haros_name_is_complete(haros_instance_name)
        /\ b = first_bank_with(bankOrder, chris, haros_instance_name)
        /\ \E r \in {merge_haros_model_with_chris_model(
                         kind, b, h, chris[b][haros_instance_name])} :
               /\ r.m.version <= MaxVersion
               /\ chris' = [chris EXCEPT ![b][haros_instance_name] = r.m]
               /\ crashed' = r.crash
               /\ last' = Last(IF r.crash THEN "crash" ELSE "merge", b, haros_instance_name,
                               h, r.updated, r.log)
        /\ UNCHANGED <<kind, actionBank, bankOrder, actionVars, nodeVars, laterVars>>

\* the name is in no bank: a new entity is created, populated and initialized
Create(h) ==
    \E haros_instance_name \in {adjust_haros_name(kind, h.id)} :
      \E bank_type \in {create_new_chris_model(kind, h)} :
        /\ ~crashed
        /\ check_haros_name_is_complete(haros_instance_name)
        /\ \A b \in chris_model_banks(kind) : haros_instance_name \notin DOMAIN chris[b]
        /\ \E r \in {populate_new_chris_model(kind, bank_type, h,
                         create_entity(kind, haros_instance_name))} :
               /\ chris' = [chris EXCEPT ![bank_type] = Put(@, haros_instance_name, r.m)]
               /\ crashed' = r.crash
               /\ last' = Last(IF r.crash THEN "crash" ELSE "create", bank_type,
                               haros_instance_name, h, r.updated, r.log)
        /\ UNCHANGED <<kind, actionBank, bankOrder, actionVars, nodeVars, laterVars>>

MergerNext ==
    \/ \E h \in haros_model_instances(kind) : Skip(h)
    \/ \E h \in haros_model_instances(kind) : \E b \in chris_model_banks(kind) : Merge(h, b)
    \/ \E h \in haros_model_instances(kind) : Create(h)


SpecMerge == MergerInit /\ [][MergerNext]_vars


(***************************************************************************)
(* Properties of the merger.  In a step, last' tells which loop iteration  *)
(* the step is; Before and After are the entity it worked on.              *)
(***************************************************************************)
Before == chris[last'.bank][last'.name]
After == chris'[last'.bank][last'.name]

\* the fields of an entity other than its version and its source
ContentFields(e) == DOMAIN e \ {"version", "source"}
SameContent(e1, e2) == \A f \in ContentFields(e1) : e1[f] = e2[f]

\* how often the tag of the merger occurs in a source
TagCount(source) ==
    IF source.t = "list"
    THEN Cardinality({i \in DOMAIN source.v : source.v[i] = REMODELER_SOURCE_NAME})
    ELSE Cardinality({i \in DOMAIN Split(source.v, ",") :
                         Strip(Split(source.v, ",")[i]) = REMODELER_SOURCE_NAME})

\* C1: a merge call in which at least one field of the entity changed increases
\* the version of the entity by exactly 1 and leaves its source (a list or a
\* comma separated string) with the tag of the merger exactly once.
C1_ChangedMergeBumpsVersionAndTagsOnce ==
    [][(last'.op = "merge" /\ ~SameContent(Before, After))
          => /\ After.version = Before.version + 1
             /\ After.source.t \in {"list", "str"}
             /\ TagCount(After.source) = 1]_vars

\* C2: a merge call whose helper changes no field of the entity leaves the
\* version and the source of the entity as they were.
C2_UnchangedMergeKeepsVersionAndSource ==
    [][(last'.op = "merge" /\ SameContent(Before, After))
          => /\ After.version = Before.version
             /\ After.source = Before.source]_vars

\* the scalar fields of the deployment entities
ScalarFields ==
    {"node", "cmdline", "launch_file", "construct_type", "python_type", "value",
     "is_node_scope", "package", "directory_path", "installed_version",
     "is_metapackage", "url", "description"}

\* the field holds a value: the attribute exists and is not None
HoldsValue(x) == x # NoneV /\ x # Absent

\* C3: a merge never replaces a scalar field of the deployment entity that
\* already holds a value by a different value.
C3_MergeNeverReplacesScalar ==
    [][last'.op = "merge"
          => \A f \in ScalarFields \cap DOMAIN Before :
                 HoldsValue(Before[f]) => After[f] = Before[f]]_vars


\* the name is '?' or its last '/' separated segment is '?'
IsPlaceholderName(n) ==
    \/ n = <<"?">>
    \/ Len(n) >= 2 /\ n[Len(n) - 1] = "/" /\ n[Len(n)] = "?"

\* the names of the links that are not placeholders
LinkedNames(links) ==
    {links[i] : i \in {j \in DOMAIN links : ~IsPlaceholderName(Strip(links[j]))}}

\* C4: when the type of the HAROS topic differs from the construct_type of the
\* CHRIS topic and the HAROS topic has no publisher or subscriber that the CHRIS
\* topic lacks, the merge keeps the construct_type, logs the conflict and leaves
\* the version as it was.
C4_TopicTypeConflictKeepsTypeAndVersion ==
    [][(/\ kind = "topic" /\ last'.op = "merge"
        /\ last'.h.type # Before.construct_type
        /\ LinkedNames(last'.h.publishers) \subseteq Before.publisher_node_names
        /\ LinkedNames(last'.h.subscribers) \subseteq Before.subscriber_node_names)
          => /\ After.construct_type = Before.construct_type
             /\ "conflict" \in last'.log
             /\ After.version = Before.version]_vars

C4_Witness ==
    /\ kind = "topic" /\ last.op = "merge" /\ "conflict" \in last.log
    /\ last.h.type # chris[last.bank][last.name].construct_type
    /\ LinkedNames(last.h.publishers) \subseteq chris[last.bank][last.name].publisher_node_names
    /\ LinkedNames(last.h.subscribers) \subseteq chris[last.bank][last.name].subscriber_node_names
    /\ chris[last.bank][last.name].version = 0

\* what the new entity e holds of the HAROS instance h it was created for
PopulatedFrom(k, h, e) ==
    CASE k = "node" -> /\ e.node = h.node_name /\ e.cmdline = h.argv
                       /\ h.launch # NoneV => e.launch_file = h.launch
      [] k = "topic" -> /\ e.construct_type = h.type
                        /\ e.publisher_node_names = LinkedNames(h.publishers)
                        /\ e.subscriber_node_names = LinkedNames(h.subscribers)
      [] k = "service" -> /\ e.construct_type = h.type
                          /\ e.service_client_node_names = LinkedNames(h.clients) \ {NoneV}
      [] k = "parameter" -> /\ e.reading_node_names = LinkedNames(h.reads)
                            /\ h.value # NoneV => e.python_type = <<h.value[1]>>
      [] k = "node_specification" -> e.package = h.package
      [] k = "package_specification" -> /\ e.directory_path = h.path /\ e.url = h.vcs_url
      [] OTHER -> TRUE

\* C5: when the loop meets a complete name that no bank of the remodeler holds,
\* it creates exactly one entity of that name, in one bank (for a node: the
\* nodelet bank when the HAROS node has a nodelet class, else the node bank),
\* populates it from the HAROS instance and leaves it with version 0 and the
\* tag of the merger as its source; the other entities stay as they were.
C5_MissingNameCreatesOneEntity ==
    [][(/\ ~IsPlaceholderName(Strip(last'.name))
        /\ \A b \in chris_model_banks(kind) : last'.name \notin DOMAIN chris[b])
          => /\ last'.op = "create"
             /\ \A b \in chris_model_banks(kind) :
                   /\ DOMAIN chris'[b] =
                         DOMAIN chris[b] \cup (IF b = last'.bank THEN {last'.name} ELSE {})
                   /\ \A n \in DOMAIN chris[b] : chris'[b][n] = chris[b][n]
             /\ kind = "node" =>
                   last'.bank = (IF last'.h.nodelet_class # NoneV THEN "NODELET" ELSE "NODE")
             /\ After.name = last'.name
             /\ After.version = 0
             /\ After.source = SrcStr(<<"haros_chris_model_merger">>)
             /\ PopulatedFrom(kind, last'.h, After)]_vars

C5_Witness ==
    /\ kind = "node" /\ last.op = "create" /\ last.bank = "NODELET"
    /\ last.h.nodelet_class = Cls
    /\ last.name \in DOMAIN chris["NODELET"]
    /\ last.name \notin DOMAIN chris["NODE"]
    /\ chris["NODELET"][last.name].version = 0

\* C6: a HAROS instance whose adjusted name is '?' or ends in the segment '?' is
\* neither merged nor created: the banks stay as they are, an error is logged,
\* and no exception ends the loop.
C6_PlaceholderNameIsSkipped ==
    [][IsPlaceholderName(last'.name)
          => /\ last'.op = "skip"
             /\ chris' = chris
             /\ "incomplete" \in last'.log
             /\ ~crashed']_vars

C6_Witness ==
    /\ last.op = "skip" /\ last.name = <<"pkg", "/", "?">> /\ ~crashed
    /\ last.h.id = <<"node:", "pkg", "/", "?">>

(***************************************************************************)
(* chris_ros_snapshot.                                                     *)
(*                                                                         *)
(* The filters of chris_ros_modeling.utilities.filters, as main() of       *)
(* ros_snapshot configures them: FILTER_OUT_DEBUG is True and              *)
(* FILTER_OUT_TF is False, so the base and the debug exclusions apply.     *)
(***************************************************************************)
NodeFilter_BASE_EXCLUSIONS == {<<"/", "roslaunch">>}
NodeFilter_DEBUG_EXCLUSIONS == {<<"/", "rosout">>}
TopicFilter_DEBUG_EXCLUSIONS ==
    {<<"/", "rosout">>, <<"/", "rosout_agg">>, <<"/", "statistics">>}
ServiceTypeFilter_DEBUG_EXCLUSIONS ==
    {<<"roscpp", "/", "GetLoggers">>, <<"roscpp", "/", "SetLoggerLevel">>}

NodeFilter_should_filter_out(item) ==
    item \in NodeFilter_BASE_EXCLUSIONS \/ item \in NodeFilter_DEBUG_EXCLUSIONS

TopicFilter_should_filter_out(item) == item \in TopicFilter_DEBUG_EXCLUSIONS

ServiceTypeFilter_should_filter_out(item) ==
    item \in ServiceTypeFilter_DEBUG_EXCLUSIONS

(***************************************************************************)
(* _EntityBuilder: the suffix and the base of a name.                      *)
(***************************************************************************)
name_tokens(name) == Split(name, "/")

\* '/{}'.format(name_tokens[-1])
name_suffix(name) == <<"/">> \o name_tokens(name)[Len(name_tokens(name))]

\* '/'.join(name_tokens[0:(len(name_tokens) - 1)])
name_base(name) ==
    Join(SubSeq(name_tokens(name), 1, Len(name_tokens(name)) - 1), <<"/">>)

(***************************************************************************)
(* TopicBuilder and TopicBankBuilder.                                      *)
(***************************************************************************)
UNKNOWN_TOPIC_TYPE == <<"Error:", " ", "Unknown">>

TopicBuilder(name, construct_type) ==
    [name |-> name, construct_type |-> construct_type,
     published |-> {}, subscribed |-> {}]

publisher_node_names(topic_builder) ==
    {n \in topic_builder.published : ~NodeFilter_should_filter_out(n)}

subscriber_node_names(topic_builder) ==
    {n \in topic_builder.subscribed : ~NodeFilter_should_filter_out(n)}

add_node_name(topic_builder, node_name, status) ==
    IF status = "published"
    THEN [topic_builder EXCEPT !.published = @ \cup {node_name}]
    ELSE [topic_builder EXCEPT !.subscribed = @ \cup {node_name}]

\* the type of the last pair of topic_types that names the topic
RECURSIVE find_topic_type(_, _, _)
find_topic_type(topic_types, desired_topic, obtained_topic_type) ==
    IF topic_types = <<>> THEN obtained_topic_type
    ELSE find_topic_type(Tail(topic_types), desired_topic,
             IF Head(topic_types)[1] = desired_topic
             THEN Head(topic_types)[2] ELSE obtained_topic_type)

\* topic_bank[name]: the builder is created when the bank has none
TopicBank_getitem(bank, topic_types, name) ==
    IF name \in DOMAIN bank THEN bank
    ELSE Put(bank, name,
             TopicBuilder(name, find_topic_type(topic_types, name, UNKNOWN_TOPIC_TYPE)))

(***************************************************************************)
(* ROSSnapshot._collect_node_info, on the topic bank.                      *)
(***************************************************************************)
RECURSIVE add_node_names(_, _, _, _)
add_node_names(bank, topic_name, node_names, status) ==
    IF node_names = <<>> THEN bank
    ELSE add_node_names(
             [bank EXCEPT ![topic_name] = add_node_name(@, Head(node_names), status)],
             topic_name, Tail(node_names), status)

RECURSIVE create_nodes_with_topics(_, _, _, _)
create_nodes_with_topics(bank, topic_types, state_information, status) ==
    IF state_information = <<>> THEN bank
    ELSE create_nodes_with_topics(
             add_node_names(
                 TopicBank_getitem(bank, topic_types, Head(state_information)[1]),
                 Head(state_information)[1], Head(state_information)[2], status),
             topic_types, Tail(state_information), status)

collect_node_info(topic_types, publishers, subscribers) ==
    create_nodes_with_topics(
        create_nodes_with_topics(EmptyDict, topic_types, publishers, "published"),
        topic_types, subscribers, "subscribed")

(***************************************************************************)
(* ActionBuilder.                                                          *)
(***************************************************************************)
CLIENT_PUBLISHED_TOPIC_SUFFIXES == {<<"/", "cancel">>, <<"/", "goal">>}
SERVER_PUBLISHED_TOPIC_SUFFIXES ==
    {<<"/", "feedback">>, <<"/", "result">>, <<"/", "status">>}
TOPIC_SUFFIXES == CLIENT_PUBLISHED_TOPIC_SUFFIXES \cup SERVER_PUBLISHED_TOPIC_SUFFIXES
NUM_TOPIC_SUFFIXES == Cardinality(TOPIC_SUFFIXES)
CORE_TOPIC_SUFFIXES_TO_TYPE_TOKENS ==
    (<<"/", "feedback">> :> "Feedback") @@ (<<"/", "goal">> :> "Goal")
        @@ (<<"/", "result">> :> "Result")

ActionBuilder(name) ==
    [name |-> name, construct_type |-> NoneV,
     topic_names_to_builders |-> EmptyDict,
     topic_name_suffixes_to_builders |-> EmptyDict,
     client_node_names |-> {}, server_node_names |-> {}]

add_topic_builder(action_builder, topic_builder) ==
    [action_builder EXCEPT
        !.topic_names_to_builders = Put(@, topic_builder.name, topic_builder),
        !.topic_name_suffixes_to_builders =
            Put(@, name_suffix(topic_builder.name), topic_builder)]

test_potential_action_topic_builder(action_topic) ==
    name_suffix(action_topic.name) \in TOPIC_SUFFIXES

\* 'Action{}'.format(core_topic_type_token)
ActionTypeToken(core_topic_type_token) == <<"Action", core_topic_type_token>>

\* s.endswith(suffix)
EndsWith(s, suffix) ==
    /\ Len(s) >= Len(suffix)
    /\ SubSeq(s, Len(s) - Len(suffix) + 1, Len(s)) = suffix

\* s[:-len(suffix)]
DropLast(s, suffix) == SubSeq(s, 1, Len(s) - Len(suffix))

validate_topic_builders_have_required_suffixes(topic_builders) ==
    /\ Cardinality({name_suffix(tb.name) : tb \in topic_builders}) >= 3
    /\ {name_suffix(tb.name) : tb \in topic_builders} \subseteq TOPIC_SUFFIXES

validate_core_topic_builders_have_required_types(topic_name_suffixes_to_builders) ==
    \A core \in DOMAIN CORE_TOPIC_SUFFIXES_TO_TYPE_TOKENS :
        /\ core \in DOMAIN topic_name_suffixes_to_builders
        /\ EndsWith(topic_name_suffixes_to_builders[core].construct_type,
                    ActionTypeToken(CORE_TOPIC_SUFFIXES_TO_TYPE_TOKENS[core]))

\* a variant that counts the suffixes and does not look at the core topics
validate_suffixes_only(action_builder) ==
    validate_topic_builders_have_required_suffixes(
        Range(action_builder.topic_names_to_builders))

validate_action_topic_builders(action_builder) ==
    /\ validate_topic_builders_have_required_suffixes(
           Range(action_builder.topic_names_to_builders))
    /\ validate_core_topic_builders_have_required_types(
           action_builder.topic_name_suffixes_to_builders)

\* the appearance count of one node: a publisher of the topics with the
\* publisher suffixes, a subscriber of the topics with the subscriber suffixes
Appearances(action_builder, publisher_suffixes, subscriber_suffixes, n) ==
    Cardinality({s \in publisher_suffixes :
        n \in publisher_node_names(action_builder.topic_name_suffixes_to_builders[s])})
    + Cardinality({s \in subscriber_suffixes :
        n \in subscriber_node_names(action_builder.topic_name_suffixes_to_builders[s])})

\* the dict of node names to counts; the caller has checked that every suffix
\* has a TopicBuilder (a KeyError otherwise)
count_action_node_appearances(action_builder, publisher_suffixes, subscriber_suffixes) ==
    [n \in UNION ({publisher_node_names(action_builder.topic_name_suffixes_to_builders[s]) :
                       s \in publisher_suffixes}
                  \cup {subscriber_node_names(action_builder.topic_name_suffixes_to_builders[s]) :
                       s \in subscriber_suffixes})
        |-> Appearances(action_builder, publisher_suffixes, subscriber_suffixes, n)]

\* a variant in which three appearances are enough
gather_names_with_three_appearances(action_node_names_to_counts) ==
    {n \in DOMAIN action_node_names_to_counts : action_node_names_to_counts[n] >= 3}

gather_valid_action_node_names_based_on_appearance_counts(action_node_names_to_counts) ==
    {n \in DOMAIN action_node_names_to_counts :
        action_node_names_to_counts[n] = NUM_TOPIC_SUFFIXES}

\* topic_name_suffixes_to_builders[suffix] raises KeyError for some suffix
MissingSuffix(action_builder) ==
    ~(TOPIC_SUFFIXES \subseteq DOMAIN action_builder.topic_name_suffixes_to_builders)

\* (client names, server names), or the KeyError
gather_action_client_and_server_names(action_builder) ==
    IF MissingSuffix(action_builder)
    THEN [raised |-> TRUE, clients |-> {}, servers |-> {}]
    ELSE [raised |-> FALSE,
          clients |-> gather_valid_action_node_names_based_on_appearance_counts(
              count_action_node_appearances(action_builder,
                  CLIENT_PUBLISHED_TOPIC_SUFFIXES, SERVER_PUBLISHED_TOPIC_SUFFIXES)),
          servers |-> gather_valid_action_node_names_based_on_appearance_counts(
              count_action_node_appearances(action_builder,
                  SERVER_PUBLISHED_TOPIC_SUFFIXES, CLIENT_PUBLISHED_TOPIC_SUFFIXES))]

\* ActionBuilder.prepare, when no exception leaves it
ActionBuilder_prepare(action_builder) ==
    [action_builder EXCEPT
        !.client_node_names = gather_action_client_and_server_names(action_builder).clients,
        !.server_node_names = gather_action_client_and_server_names(action_builder).servers]

\* the core suffixes that have a TopicBuilder whose type ends in 'Action<Type>'
GoodCores(action_builder) ==
    {core \in DOMAIN CORE_TOPIC_SUFFIXES_TO_TYPE_TOKENS :
        /\ core \in DOMAIN action_builder.topic_name_suffixes_to_builders
        /\ EndsWith(action_builder.topic_name_suffixes_to_builders[core].construct_type,
                    ActionTypeToken(CORE_TOPIC_SUFFIXES_TO_TYPE_TOKENS[core]))}

\* topic_builder_type[:-len('Action{}'.format(core_topic_type_token))]
CorePrefix(action_builder, core) ==
    DropLast(action_builder.topic_name_suffixes_to_builders[core].construct_type,
             ActionTypeToken(CORE_TOPIC_SUFFIXES_TO_TYPE_TOKENS[core]))

CorePrefixes(action_builder) ==
    {CorePrefix(action_builder, core) : core \in GoodCores(action_builder)}

\* _extract_action_construct_type raises ValueError
ConstructTypeError(action_builder) ==
    \/ GoodCores(action_builder) # DOMAIN CORE_TOPIC_SUFFIXES_TO_TYPE_TOKENS
    \/ Cardinality(CorePrefixes(action_builder)) > 1

\* The outcomes of _extract_action_construct_type.  The loop visits the core
\* suffixes in the order of a dict: when it raises, _construct_type holds
\* the prefix of the core type that was visited first, or None.
extract_action_construct_type(action_builder) ==
    IF ConstructTypeError(action_builder)
    THEN {[raised |-> TRUE, construct_type |-> t] :
             t \in CorePrefixes(action_builder)
                   \cup (IF GoodCores(action_builder) # DOMAIN CORE_TOPIC_SUFFIXES_TO_TYPE_TOKENS
                         THEN {NoneV} ELSE {})}
    ELSE {[raised |-> FALSE, construct_type |-> t] : t \in CorePrefixes(action_builder)}

\* the property construct_type
construct_type(action_builder) ==
    IF action_builder.construct_type # NoneV
    THEN {[raised |-> FALSE, construct_type |-> action_builder.construct_type]}
    ELSE extract_action_construct_type(action_builder)

\* ActionBuilder.extract_metamodel: the builder after the call, and whether
\* an exception left it (ValueError of the construct type, KeyError of
\* _extract_suffix_names_to_topic_metamodels)
ActionBuilder_extract_metamodel(action_builder) ==
    {[raised |-> r.raised \/ MissingSuffix(action_builder),
      builder |-> [action_builder EXCEPT !.construct_type = r.construct_type]] :
        r \in construct_type(action_builder)}

(***************************************************************************)
(* TopicBankBuilder.extract_action_builders_from_internal_topic_builders.  *)
(***************************************************************************)
\* the first loop: the potential action topics, grouped by their name base
RECURSIVE GroupTopicBuilders(_, _, _)
GroupTopicBuilders(bank, names, names_to_action_builders) ==
    IF names = <<>> THEN names_to_action_builders
    ELSE IF ~test_potential_action_topic_builder(bank[Head(names)])
    THEN GroupTopicBuilders(bank, Tail(names), names_to_action_builders)
    ELSE GroupTopicBuilders(bank, Tail(names),
             Put(names_to_action_builders, name_base(Head(names)),
                 add_topic_builder(
                     IF name_base(Head(names)) \in DOMAIN names_to_action_builders
                     THEN names_to_action_builders[name_base(Head(names))]
                     ELSE ActionBuilder(name_base(Head(names))),
                     bank[Head(names)])))

\* a variant in which the topics of a valid action stay in the bank
keep_action_topic_builders(bank, action_topic_builders) == bank

remove_action_topic_builders(bank, action_topic_builders) ==
    [n \in (DOMAIN bank) \ {tb.name : tb \in action_topic_builders} |-> bank[n]]

\* a variant of the second loop in which the topics of an invalid
\* ActionBuilder leave the bank too
RECURSIVE validate_removing_every_group(_, _)
validate_removing_every_group(action_names, r) ==
    IF action_names = <<>> THEN r
    ELSE validate_removing_every_group(Tail(action_names),
             [actions |->
                 IF validate_action_topic_builders(r.actions[Head(action_names)])
                 THEN r.actions
                 ELSE [a \in (DOMAIN r.actions) \ {Head(action_names)} |-> r.actions[a]],
              bank |-> remove_action_topic_builders(r.bank,
                 Range(r.actions[Head(action_names)].topic_names_to_builders))])

\* the second loop: an invalid ActionBuilder is popped, the topics of a valid
\* one leave the bank
RECURSIVE ValidateActionBuilders(_, _)
ValidateActionBuilders(action_names, r) ==
    IF action_names = <<>> THEN r
    ELSE IF ~validate_action_topic_builders(r.actions[Head(action_names)])
    THEN ValidateActionBuilders(Tail(action_names),
             [r EXCEPT !.actions =
                 [a \in (DOMAIN r.actions) \ {Head(action_names)} |-> r.actions[a]]])
    ELSE ValidateActionBuilders(Tail(action_names),
             [r EXCEPT !.bank = remove_action_topic_builders(@,
                 Range(r.actions[Head(action_names)].topic_names_to_builders))])

GroupedActionBuilders(bank) ==
    GroupTopicBuilders(bank, Sorted(DOMAIN bank), EmptyDict)

extract_action_builders_from_internal_topic_builders(bank) ==
    ValidateActionBuilders(Sorted(DOMAIN GroupedActionBuilders(bank)),
        [actions |-> GroupedActionBuilders(bank), bank |-> bank])

\* _BankBuilder.prepare of the topic bank: the filter; TopicBuilder.prepare
\* does nothing
TopicBank_prepare(bank) ==
    [n \in {m \in DOMAIN bank : ~TopicFilter_should_filter_out(m)} |-> bank[n]]

\* _BankBuilder.prepare of the action bank raises the KeyError of a builder
ActionBank_prepare_raises(action_builders) ==
    \E a \in DOMAIN action_builders : MissingSuffix(action_builders[a])

\* _BankBuilder.prepare of the action bank: no filter, every builder prepares
ActionBank_prepare(action_builders) ==
    [a \in DOMAIN action_builders |-> ActionBuilder_prepare(action_builders[a])]

(***************************************************************************)
(* The ROS deployments of the action model: one topic cluster '/r/move',   *)
(* three nodes that take a role on it, and three more topics.              *)
(***************************************************************************)
NodeC == <<"/", "c">>
NodeS == <<"/", "s">>
NodeL == <<"/", "roslaunch">>
MOVE == <<"/", "r", "/", "move">>
ScanTopic == <<"/", "r", "/", "move", "/", "scan">>
QGoalTopic == <<"/", "q", "/", "goal">>
RosoutTopic == <<"/", "rosout">>
ExtraTopics == {ScanTopic, QGoalTopic, RosoutTopic}
MoveTopics == {MOVE \o s : s \in TOPIC_SUFFIXES}

\* the suffixes of the cluster that a node publishes and subscribes to
NoRole == [pub |-> {}, sub |-> {}]
ClientRole ==
    [pub |-> CLIENT_PUBLISHED_TOPIC_SUFFIXES, sub |-> SERVER_PUBLISHED_TOPIC_SUFFIXES]
ServerRole ==
    [pub |-> SERVER_PUBLISHED_TOPIC_SUFFIXES, sub |-> CLIENT_PUBLISHED_TOPIC_SUFFIXES]
BothRoles == [pub |-> TOPIC_SUFFIXES, sub |-> TOPIC_SUFFIXES]
PartialClientRole ==
    [pub |-> {<<"/", "goal">>}, sub |-> {<<"/", "feedback">>, <<"/", "result">>}]
CoreServerRole ==
    [pub |-> {<<"/", "feedback">>, <<"/", "result">>}, sub |-> {<<"/", "goal">>}]
NoFeedbackRole ==
    [pub |-> CLIENT_PUBLISHED_TOPIC_SUFFIXES, sub |-> {<<"/", "result">>, <<"/", "status">>}]
Roles == {NoRole, ClientRole, ServerRole, BothRoles, PartialClientRole, CoreServerRole,
          NoFeedbackRole}

RoleAssignments ==
    {(NodeC :> c) @@ (NodeS :> s) @@ (NodeL :> l) :
        c \in Roles, s \in Roles, l \in {NoRole, ClientRole}}

\* the nodes that the master reports for a topic; with extra, the node '/s'
\* also publishes the three topics outside the cluster
Talkers(roles, extra, status, topic_name) ==
    {n \in DOMAIN roles :
        \E s \in (IF status = "published" THEN roles[n].pub ELSE roles[n].sub) :
            topic_name = MOVE \o s}
    \cup (IF extra /\ status = "published" /\ topic_name \in ExtraTopics
          THEN {NodeS} ELSE {})

TopicsWithTalkers(roles, extra, status) ==
    Sorted({t \in MoveTopics \cup ExtraTopics : Talkers(roles, extra, status, t) # {}})

\* one of the two lists of master.getSystemState(): [topic, [node, ...]] pairs
SystemState(roles, extra, status) ==
    [i \in 1..Len(TopicsWithTalkers(roles, extra, status)) |->
        <<TopicsWithTalkers(roles, extra, status)[i],
          Sorted(Talkers(roles, extra, status, TopicsWithTalkers(roles, extra, status)[i]))>>]

\* master.getTopicTypes(): the types of a well formed action, and three
\* variants of them
TypeVariants == {"valid", "prefix", "token", "unlisted"}

TopicTypes(variant) ==
    (IF variant = "unlisted" THEN <<>>
     ELSE << <<MOVE \o <<"/", "goal">>, <<"pkg", "/", "Move", "Action", "Goal">> >> >>)
    \o << <<MOVE \o <<"/", "feedback">>,
            IF variant = "token" THEN <<"pkg", "/", "Move", "Feedback">>
            ELSE <<"pkg", "/", "Move", "Action", "Feedback">> >>,
          <<MOVE \o <<"/", "result">>,
            IF variant = "prefix" THEN <<"other", "/", "Move", "Action", "Result">>
            ELSE <<"pkg", "/", "Move", "Action", "Result">> >>,
          <<MOVE \o <<"/", "cancel">>, <<"actionlib_msgs", "/", "GoalID">> >>,
          <<MOVE \o <<"/", "status">>, <<"actionlib_msgs", "/", "GoalStatusArray">> >>,
          <<ScanTopic, <<"sensor_msgs", "/", "LaserScan">> >>,
          <<QGoalTopic, <<"pkg", "/", "Q", "Action", "Goal">> >>,
          <<RosoutTopic, <<"rosgraph_msgs", "/", "Log">> >> >>

(***************************************************************************)
(* The snapshot of the topics and actions: ROSSnapshot.snapshot() up to    *)
(* the extraction of the action bank.  apc is the position in it.          *)
(***************************************************************************)
ActionInit ==
    /\ topicBank = EmptyDict /\ actions = EmptyDict /\ apc = "idle"
    \* neither the merger nor the node classification runs
    /\ MergerIdle
    /\ node = EmptyDict /\ npc = "idle"
    /\ LaterIdle

\* ROSModelBuilder(master.getTopicTypes()) and _collect_node_info
CollectNodeInfo(topic_types, publishers, subscribers) ==
    /\ apc = "idle"
    /\ topicBank' = collect_node_info(topic_types, publishers, subscribers)
    /\ apc' = "collected"
    /\ UNCHANGED <<actions, mergerVars, nodeVars, laterVars>>

\* ROSModelBuilder.prepare: the ActionBuilders are extracted from the topic
\* bank and added to the action bank
ExtractActionBuilders ==
    /\ apc = "collected"
    /\ \E r \in {extract_action_builders_from_internal_topic_builders(topicBank)} :
           /\ topicBank' = r.bank
           /\ actions' = r.actions
    /\ apc' = "extracted"
    /\ UNCHANGED <<mergerVars, nodeVars, laterVars>>

\* ROSModelBuilder.prepare: the topic bank prepares
PrepareTopicBank ==
    /\ apc = "extracted"
    /\ topicBank' = TopicBank_prepare(topicBank)
    /\ apc' = "topics_prepared"
    /\ UNCHANGED <<actions, mergerVars, nodeVars, laterVars>>

\* ROSModelBuilder.prepare: the action bank prepares; the KeyError of a
\* builder leaves snapshot()
PrepareActionBank ==
    /\ apc = "topics_prepared"
    /\ IF ActionBank_prepare_raises(actions)
       THEN apc' = "crashed" /\ UNCHANGED actions
       ELSE apc' = "prepared" /\ actions' = ActionBank_prepare(actions)
    /\ UNCHANGED <<topicBank, mergerVars, nodeVars, laterVars>>

\* ROSModelBuilder.extract_model: the metamodel of every ActionBuilder is
\* extracted; the ValueError or KeyError of a builder leaves snapshot()
ExtractActionMetamodels ==
    /\ apc = "prepared"
    /\ \E f \in [DOMAIN actions -> UNION {ActionBuilder_extract_metamodel(actions[a]) : a \in DOMAIN actions}] :
           /\ \A a \in DOMAIN actions : f[a] \in ActionBuilder_extract_metamodel(actions[a])
           /\ actions' = [a \in DOMAIN actions |-> f[a].builder]
           /\ apc' = IF \E a \in DOMAIN actions : f[a].raised THEN "crashed" ELSE "done"
    /\ UNCHANGED <<topicBank, mergerVars, nodeVars, laterVars>>

ActionNext ==
    \/ \E v \in TypeVariants : \E roles \in RoleAssignments : \E extra \in BOOLEAN :
           CollectNodeInfo(TopicTypes(v), SystemState(roles, extra, "published"),
                           SystemState(roles, extra, "subscribed"))
    \/ ExtractActionBuilders
    \/ PrepareTopicBank
    \/ PrepareActionBank
    \/ ExtractActionMetamodels

SpecAction == ActionInit /\ [][ActionNext]_vars

(***************************************************************************)
(* Properties of the promotion of topic clusters to actions.               *)
(***************************************************************************)
SuffixWords == {"goal", "cancel", "feedback", "result", "status"}

ClusterTopic(base, word) == base \o <<"/", word>>

\* the topics of the bank that belong to the cluster of a base name
ClusterTopics(bank, base) ==
    {ClusterTopic(base, w) : w \in SuffixWords} \cap DOMAIN bank

ClusterBases(bank) ==
    {b \in {name_base(n) : n \in DOMAIN bank} : ClusterTopics(bank, b) # {}}

HasType(bank, base, word, prefix, token) ==
    /\ ClusterTopic(base, word) \in DOMAIN bank
    /\ bank[ClusterTopic(base, word)].construct_type = prefix \o <<"Action", token>>

\* the type name prefixes that occur in the bank
TypePrefixes(bank) ==
    {SubSeq(bank[n].construct_type, 1, k) :
        n \in DOMAIN bank, k \in 0..3}

\* the five topics of the base are there, and the core types are
\* <P>ActionGoal, <P>ActionFeedback and <P>ActionResult
WellFormedCluster(bank, base, P) ==
    /\ \A w \in SuffixWords : ClusterTopic(base, w) \in DOMAIN bank
    /\ HasType(bank, base, "goal", P, "Goal")
    /\ HasType(bank, base, "feedback", P, "Feedback")
    /\ HasType(bank, base, "result", P, "Result")

\* the core types end in the expected tokens, with prefixes that differ
MismatchedCluster(bank, base) ==
    \E Pg, Pf, Pr \in TypePrefixes(bank) :
        /\ HasType(bank, base, "goal", Pg, "Goal")
        /\ HasType(bank, base, "feedback", Pf, "Feedback")
        /\ HasType(bank, base, "result", Pr, "Result")
        /\ ~(Pg = Pf /\ Pf = Pr)

\* C7: a cluster with the five suffixes goal, cancel, feedback, result and
\* status under one name prefix, whose goal, feedback and result types are
\* <P>ActionGoal, <P>ActionFeedback and <P>ActionResult for one P, is
\* promoted by extract_action_builders_from_internal_topic_builders to one
\* Action named by the prefix, which holds the five topics and whose
\* construct type is P (as the property yields it, and as extract_metamodel
\* stores it); the five topics leave the topic registry.
C7_WellFormedClusterIsPromoted ==
    [][ /\ (apc = "collected" /\ apc' = "extracted") =>
            \A b \in ClusterBases(topicBank) : \A P \in TypePrefixes(topicBank) :
                WellFormedCluster(topicBank, b, P) =>
                    /\ b \in DOMAIN actions'
                    /\ actions'[b].name = b
                    /\ DOMAIN actions'[b].topic_names_to_builders
                           = ClusterTopics(topicBank, b)
                    /\ construct_type(actions'[b])
                           = {[raised |-> FALSE, construct_type |-> P]}
                    /\ ClusterTopics(topicBank, b) \cap DOMAIN topicBank' = {}
        /\ (apc = "prepared" /\ apc' # apc) =>
            \A b \in DOMAIN actions : \A P \in TypePrefixes(actions[b].topic_names_to_builders) :
                WellFormedCluster(actions[b].topic_names_to_builders, b, P) =>
                    actions'[b].construct_type = P
      ]_vars

C7_Witness ==
    /\ apc = "done"
    /\ DOMAIN actions = {MOVE}
    /\ actions[MOVE].construct_type = <<"pkg", "/", "Move">>
    /\ DOMAIN actions[MOVE].topic_names_to_builders = MoveTopics
    /\ MoveTopics \cap DOMAIN topicBank = {}
    /\ ScanTopic \in DOMAIN topicBank

\* C8: a cluster whose goal, feedback and result types each end in the
\* expected token but do not share one type name prefix is not promoted:
\* no Action is created for it and its topics stay in the topic registry.
C8_MismatchedClusterIsNotPromoted ==
    [][ (apc = "collected" /\ apc' = "extracted") =>
            \A b \in ClusterBases(topicBank) :
                MismatchedCluster(topicBank, b) =>
                    /\ b \notin DOMAIN actions'
                    /\ ClusterTopics(topicBank, b) \subseteq DOMAIN topicBank'
      ]_vars

\* the node publishes (subscribes to) the topic of the action with the suffix
PublishesTopic(action_builder, n, word) ==
    /\ ClusterTopic(action_builder.name, word) \in DOMAIN action_builder.topic_names_to_builders
    /\ n \in action_builder.topic_names_to_builders[ClusterTopic(action_builder.name, word)].published

SubscribesTopic(action_builder, n, word) ==
    /\ ClusterTopic(action_builder.name, word) \in DOMAIN action_builder.topic_names_to_builders
    /\ n \in action_builder.topic_names_to_builders[ClusterTopic(action_builder.name, word)].subscribed

ActsAsClient(action_builder, n) ==
    /\ \A w \in {"cancel", "goal"} : PublishesTopic(action_builder, n, w)
    /\ \A w \in {"feedback", "result", "status"} : SubscribesTopic(action_builder, n, w)

ActsAsServer(action_builder, n) ==
    /\ \A w \in {"feedback", "result", "status"} : PublishesTopic(action_builder, n, w)
    /\ \A w \in {"cancel", "goal"} : SubscribesTopic(action_builder, n, w)

\* C9: for a promoted Action that has prepared, a node of the snapshot (one
\* that the node filter keeps) is in client_node_names if and only if it
\* publishes cancel and goal and subscribes to feedback, result and status,
\* and is in server_node_names if and only if it publishes feedback, result
\* and status and subscribes to cancel and goal; so a node on only some of
\* the five topics is in neither set.  A node that the filter excludes is
\* in neither set.
C9_ClientAndServerNeedAllFiveTopics ==
    apc \in {"prepared", "done"} =>
        \A a \in DOMAIN actions : \A n \in {NodeC, NodeS, NodeL} :
            IF NodeFilter_should_filter_out(n)
            THEN n \notin actions[a].client_node_names \cup actions[a].server_node_names
            ELSE /\ n \in actions[a].client_node_names <=> ActsAsClient(actions[a], n)
                 /\ n \in actions[a].server_node_names <=> ActsAsServer(actions[a], n)

C9_Witness ==
    /\ apc = "prepared"
    /\ MOVE \in DOMAIN actions
    /\ actions[MOVE].server_node_names = {NodeS}
    /\ PublishesTopic(actions[MOVE], NodeC, "goal")
    /\ SubscribesTopic(actions[MOVE], NodeC, "result")
    /\ ~PublishesTopic(actions[MOVE], NodeC, "cancel")
    /\ NodeC \notin actions[MOVE].client_node_names

\* the core suffixes and the tokens of their types
CoreWords == {<<"goal", "Goal">>, <<"feedback", "Feedback">>, <<"result", "Result">>}

\* the cluster lacks the topic of a core suffix
LacksCoreSuffix(bank, base) ==
    \E core \in CoreWords : ClusterTopic(base, core[1]) \notin DOMAIN bank

\* the type of a core topic of the cluster does not end in 'Action<Type>'
HasWrongCoreType(bank, base) ==
    \E core \in CoreWords :
        /\ ClusterTopic(base, core[1]) \in DOMAIN bank
        /\ ~EndsWith(bank[ClusterTopic(base, core[1])].construct_type, <<"Action", core[2]>>)

\* C21: a cluster that lacks the goal, the feedback or the result topic, or
\* whose goal, feedback or result type does not end in ActionGoal,
\* ActionFeedback or ActionResult, or that has fewer than 3 of the five
\* suffixes, is not promoted by
\* extract_action_builders_from_internal_topic_builders: no Action has its
\* name, and each of its topics stays in the topic registry as it was
C21_InvalidClusterIsNotPromoted ==
    [][ (apc = "collected" /\ apc' = "extracted") =>
            \A b \in ClusterBases(topicBank) :
                (\/ LacksCoreSuffix(topicBank, b)
                 \/ HasWrongCoreType(topicBank, b)
                 \/ Cardinality(ClusterTopics(topicBank, b)) < 3)
                => /\ b \notin DOMAIN actions'
                   /\ \A t \in ClusterTopics(topicBank, b) :
                         t \in DOMAIN topicBank' /\ topicBank'[t] = topicBank[t]
      ]_vars

\* the cluster /r/move has four of the five suffixes and no feedback topic:
\* no Action is extracted and the four topics are in the registry
C21_Witness ==
    /\ apc = "extracted"
    /\ DOMAIN actions = {}
    /\ ClusterTopics(topicBank, MOVE) = MoveTopics \ {ClusterTopic(MOVE, "feedback")}
    /\ topicBank[ClusterTopic(MOVE, "goal")].construct_type
           = <<"pkg", "/", "Move", "Action", "Goal">>

\* the returned ActionBuilders that hold the topic
HoldersOf(action_builders, topic_name) ==
    {a \in DOMAIN action_builders :
        topic_name \in DOMAIN action_builders[a].topic_names_to_builders}

\* C24: after extract_action_builders_from_internal_topic_builders, every
\* topic that the topic registry held before the call is either in the
\* registry and in no returned ActionBuilder, or out of the registry and in
\* exactly one returned ActionBuilder, which holds the TopicBuilder that the
\* registry held
C24_TopicsArePartitioned ==
    [][ (apc = "collected" /\ apc' = "extracted") =>
            \A t \in DOMAIN topicBank :
                IF t \in DOMAIN topicBank'
                THEN HoldersOf(actions', t) = {} /\ topicBank'[t] = topicBank[t]
                ELSE /\ Cardinality(HoldersOf(actions', t)) = 1
                     /\ \A a \in HoldersOf(actions', t) :
                           actions'[a].topic_names_to_builders[t] = topicBank[t]
      ]_vars

\* the five topics of /r/move went to the Action /r/move, and the topic
\* /q/goal, the only one of its cluster, stays in the registry with two
\* other topics
C24_Witness ==
    /\ apc = "extracted"
    /\ DOMAIN actions = {MOVE}
    /\ DOMAIN actions[MOVE].topic_names_to_builders = MoveTopics
    /\ DOMAIN topicBank = ExtraTopics

\* C25: every ActionBuilder that passed validate_action_topic_builders, that
\* is every one the action bank holds, has a TopicBuilder for each of the
\* five suffixes cancel, goal, feedback, result and status, so that neither
\* ActionBuilder.prepare nor extract_metamodel raises the KeyError of a
\* missing suffix
C25_PromotedActionHoldsFiveSuffixes ==
    \A a \in DOMAIN actions :
        /\ validate_action_topic_builders(actions[a])
        /\ TOPIC_SUFFIXES \subseteq DOMAIN actions[a].topic_name_suffixes_to_builders
        /\ ~(apc = "crashed" /\ MissingSuffix(actions[a]))

(***************************************************************************)
(* NodeBuilder.  The dicts of topic names to remaps are sets of topic      *)
(* names here: the snapshot adds every name with the remap None.  The      *)
(* process information of the node (executable, threads, memory) is not    *)
(* part of the model.                                                      *)
(***************************************************************************)
NodeBuilder(name) ==
    [name |-> name, all_topic_names |-> {},
     topic_names |-> [published |-> {}, subscribed |-> {}],
     topic_names_to_types |-> EmptyDict, service_names_to_types |-> EmptyDict,
     uri |-> NoneV, is_nodelet |-> FALSE, is_nodelet_manager |-> FALSE,
     nodelet_manager_name |-> NoneV, nodelet_names |-> {},
     nodelet_or_manager_topic_names |-> [published |-> {}, subscribed |-> {}],
     action_names |-> [server |-> {}, client |-> {}]]

add_topic_name(node_builder, topic_name, status, topic_type) ==
    IF TopicFilter_should_filter_out(topic_name) THEN node_builder
    ELSE [node_builder EXCEPT
             !.all_topic_names = @ \cup {topic_name},
             !.topic_names[status] = @ \cup {topic_name},
             !.topic_names_to_types = Put(@, topic_name, topic_type)]

add_service_name_and_type(node_builder, service_name, service_type) ==
    IF ServiceTypeFilter_should_filter_out(service_type) THEN node_builder
    ELSE [node_builder EXCEPT
             !.service_names_to_types = Put(@, service_name, service_type)]

NodeletList == <<"nodelet", "/", "NodeletList">>
NodeletLoad == <<"nodelet", "/", "NodeletLoad">>
NodeletUnload == <<"nodelet", "/", "NodeletUnload">>

\* some topic of all_topic_names has the type 'bond/Status'
HasBondTopic(node_builder) ==
    \E topic_name \in node_builder.all_topic_names :
        node_builder.topic_names_to_types[topic_name] = BondStatus

\* a variant in which the load service is enough
gather_status_from_load_service(node_builder) ==
    /\ HasBondTopic(node_builder)
    /\ NodeletLoad \in Range(node_builder.service_names_to_types)

gather_nodelet_manager_status(node_builder) ==
    /\ HasBondTopic(node_builder)
    /\ NodeletList \in Range(node_builder.service_names_to_types)
    /\ NodeletLoad \in Range(node_builder.service_names_to_types)
    /\ NodeletUnload \in Range(node_builder.service_names_to_types)

\* reads is_nodelet_manager, which prepare has set
gather_nodelet_status(node_builder) ==
    HasBondTopic(node_builder) /\ ~node_builder.is_nodelet_manager

\* the 'bond/Status' topics move from topic_names to the returned dict
extract_topics_for_nodelet_or_manager(node_builder) ==
    [node_builder EXCEPT
        !.nodelet_or_manager_topic_names =
            [status \in {"published", "subscribed"} |->
                {t \in node_builder.topic_names[status] :
                    node_builder.topic_names_to_types[t] = BondStatus}],
        !.topic_names =
            [status \in {"published", "subscribed"} |->
                {t \in node_builder.topic_names[status] :
                    node_builder.topic_names_to_types[t] # BondStatus}]]

\* the role of the node on the action that a topic name belongs to
ActionRole(node_builder, topic_name, topic_bank, action_bank) ==
    IF \/ topic_name \in DOMAIN topic_bank
       \/ name_base(topic_name) \notin DOMAIN action_bank
       \/ name_suffix(topic_name) \notin TOPIC_SUFFIXES
    THEN "none"
    ELSE IF node_builder.name \in action_bank[name_base(topic_name)].client_node_names
    THEN "client"
    ELSE IF node_builder.name \in action_bank[name_base(topic_name)].server_node_names
    THEN "server"
    ELSE "none"

extract_action_names_and_remove_corresponding_topics(node_builder, topic_bank, action_bank) ==
    [node_builder EXCEPT
        !.action_names =
            [role \in {"server", "client"} |->
                {name_base(t) : t \in {x \in node_builder.topic_names["published"]
                                              \cup node_builder.topic_names["subscribed"] :
                    ActionRole(node_builder, x, topic_bank, action_bank) = role}}],
        !.topic_names =
            [status \in {"published", "subscribed"} |->
                {t \in node_builder.topic_names[status] :
                    ActionRole(node_builder, t, topic_bank, action_bank) = "none"}]]

\* 'UNKNOWN URI FOR {}'.format(name)
UnknownUri(name) == <<"UNKNOWN", " ", "URI", " ", "FOR", " ">> \o name

SetClassification(node_builder, uri, manager) ==
    [node_builder EXCEPT !.uri = uri, !.is_nodelet_manager = manager]

SetNodelet(node_builder) ==
    [node_builder EXCEPT !.is_nodelet = gather_nodelet_status(node_builder)]

ExtractNodeletTopics(node_builder) ==
    IF node_builder.is_nodelet \/ node_builder.is_nodelet_manager
    THEN extract_topics_for_nodelet_or_manager(node_builder)
    ELSE node_builder

\* NodeBuilder.prepare, with the URI that the master returned
NodeBuilder_prepare(node_builder, uri, topic_bank, action_bank) ==
    extract_action_names_and_remove_corresponding_topics(
        ExtractNodeletTopics(SetNodelet(
            SetClassification(node_builder, uri,
                              gather_nodelet_manager_status(node_builder)))),
        topic_bank, action_bank)

(***************************************************************************)
(* The classification of one node '/m': the topics and services that the   *)
(* master reports for it are added, then the node prepares.                *)
(***************************************************************************)
NodeM == <<"/", "m">>
MBondTopic == <<"/", "m", "/", "bond">>
ChatterTopic == <<"/", "chatter">>
NodeTopicTypes ==
    (MBondTopic :> BondStatus) @@ (ChatterTopic :> <<"std_msgs", "/", "String">>)
        @@ (RosoutTopic :> <<"rosgraph_msgs", "/", "Log">>)
NodeServiceTypes ==
    (<<"/", "m", "/", "list">> :> NodeletList)
        @@ (<<"/", "m", "/", "load_nodelet">> :> NodeletLoad)
        @@ (<<"/", "m", "/", "unload_nodelet">> :> NodeletUnload)
        @@ (<<"/", "m", "/", "get_loggers">> :> <<"roscpp", "/", "GetLoggers">>)
NodeUris == {<<"http://m">>, UnknownUri(NodeM)}

NodeInit ==
    /\ node = NodeBuilder(NodeM) /\ npc = "collecting"
    \* neither the merger nor the action extraction runs: the banks that
    \* prepare receives hold no topic and no action
    /\ MergerIdle
    /\ topicBank = EmptyDict /\ actions = EmptyDict /\ apc = "idle"
    /\ LaterIdle

AddTopicName(topic_name, status) ==
    /\ npc = "collecting"
    /\ node' = add_topic_name(node, topic_name, status, NodeTopicTypes[topic_name])
    /\ UNCHANGED <<npc, mergerVars, actionVars, laterVars>>

AddServiceNameAndType(service_name) ==
    /\ npc = "collecting"
    /\ node' = add_service_name_and_type(node, service_name, NodeServiceTypes[service_name])
    /\ UNCHANGED <<npc, mergerVars, actionVars, laterVars>>

PrepareNode(uri) ==
    /\ npc = "collecting"
    /\ node' = NodeBuilder_prepare(node, uri, topicBank, actions)
    /\ npc' = "prepared"
    /\ UNCHANGED <<mergerVars, actionVars, laterVars>>

NodeNext ==
    \/ \E t \in DOMAIN NodeTopicTypes : \E status \in {"published", "subscribed"} :
           AddTopicName(t, status)
    \/ \E s \in DOMAIN NodeServiceTypes : AddServiceNameAndType(s)
    \/ \E uri \in NodeUris : PrepareNode(uri)

SpecNode == NodeInit /\ [][NodeNext]_vars

\* the node has a topic of type 'bond/Status' under the status
HasBondTopicAs(node_builder, status) ==
    \E t \in node_builder.topic_names[status] :
        node_builder.topic_names_to_types[t] = <<"bond", "/", "Status">>

ProvidesManagerServices(node_builder) ==
    \A ty \in {<<"nodelet", "/", "NodeletList">>, <<"nodelet", "/", "NodeletLoad">>,
               <<"nodelet", "/", "NodeletUnload">>} :
        \E s \in DOMAIN node_builder.service_names_to_types :
            node_builder.service_names_to_types[s] = ty

\* C10, as stated: after NodeBuilder.prepare, is_nodelet_manager is true if
\* and only if the node publishes at least one topic of type 'bond/Status'
\* and its provided service types include 'nodelet/NodeletList',
\* 'nodelet/NodeletLoad' and 'nodelet/NodeletUnload'.
C10_ManagerIffPublishesBondAndServices ==
    [][ (npc = "collecting" /\ npc' = "prepared") =>
            (node'.is_nodelet_manager <=>
                HasBondTopicAs(node, "published") /\ ProvidesManagerServices(node))
      ]_vars

\* C10, amended: after NodeBuilder.prepare, is_nodelet_manager is true if and
\* only if the node publishes or subscribes to at least one topic of type
\* 'bond/Status' and its provided service types include the three.
C10_ManagerIffHasBondAndServices ==
    [][ (npc = "collecting" /\ npc' = "prepared") =>
            (node'.is_nodelet_manager <=>
                /\ HasBondTopicAs(node, "published") \/ HasBondTopicAs(node, "subscribed")
                /\ ProvidesManagerServices(node))
      ]_vars

\* a manager that only subscribes to its 'bond/Status' topic
C10_Witness ==
    /\ npc = "prepared"
    /\ node.is_nodelet_manager
    /\ node.nodelet_or_manager_topic_names["subscribed"] = {MBondTopic}
    /\ node.nodelet_or_manager_topic_names["published"] = {}
    /\ ProvidesManagerServices(node)

(***************************************************************************)
(* NodeBankBuilder: the node side of ROSSnapshot._collect_rosgraph_info,   *)
(* and prepare with the link of the nodelets to their managers.            *)
(***************************************************************************)
\* node_bank[name]: the builder is created when the bank has none
NodeBank_getitem(bank, name) ==
    IF name \in DOMAIN bank THEN bank ELSE Put(bank, name, NodeBuilder(name))

\* the inner loop of _create_nodes_with_topics, on the node bank
RECURSIVE add_topic_name_to_nodes(_, _, _, _, _)
add_topic_name_to_nodes(bank, topic_name, node_names, status, topic_type) ==
    IF node_names = <<>> THEN bank
    ELSE add_topic_name_to_nodes(
             [NodeBank_getitem(bank, Head(node_names)) EXCEPT ![Head(node_names)] =
                 add_topic_name(@, topic_name, status, topic_type)],
             topic_name, Tail(node_names), status, topic_type)

\* _create_nodes_with_topics, on the node bank; the type is the one that the
\* TopicBuilder of the topic holds
RECURSIVE create_node_builders_with_topics(_, _, _, _)
create_node_builders_with_topics(bank, topic_types, state_information, status) ==
    IF state_information = <<>> THEN bank
    ELSE create_node_builders_with_topics(
             add_topic_name_to_nodes(bank, Head(state_information)[1],
                 Head(state_information)[2], status,
                 find_topic_type(topic_types, Head(state_information)[1], UNKNOWN_TOPIC_TYPE)),
             topic_types, Tail(state_information), status)

\* the inner loop of _collect_services_info, on the node bank
RECURSIVE add_service_to_nodes(_, _, _, _)
add_service_to_nodes(bank, service_name, service_provider_names, service_type) ==
    IF service_provider_names = <<>> THEN bank
    ELSE add_service_to_nodes(
             [NodeBank_getitem(bank, Head(service_provider_names))
                  EXCEPT ![Head(service_provider_names)] =
                      add_service_name_and_type(@, service_name, service_type)],
             service_name, Tail(service_provider_names), service_type)

\* _collect_services_info, on the node bank; a service is
\* <<name, providers, type>>, the type being the one that its ServiceBuilder
\* obtained from the service
RECURSIVE collect_services_info(_, _)
collect_services_info(bank, services) ==
    IF services = <<>> THEN bank
    ELSE collect_services_info(
             add_service_to_nodes(bank, Head(services)[1], Head(services)[2],
                                  Head(services)[3]),
             Tail(services))

\* _collect_rosgraph_info, on the node bank
collect_rosgraph_info(topic_types, publishers, subscribers, services) ==
    collect_services_info(
        create_node_builders_with_topics(
            create_node_builders_with_topics(EmptyDict, topic_types, publishers, "published"),
            topic_types, subscribers, "subscribed"),
        services)

\* _BankBuilder.prepare of the node bank, before _post_prepare: the filter,
\* then every NodeBuilder prepares (uris: the URI that the master returns
\* for each node)
NodeBank_prepare_builders(bank, uris, topic_bank, action_bank) ==
    [n \in {x \in DOMAIN bank : ~NodeFilter_should_filter_out(x)} |->
        NodeBuilder_prepare(bank[n], uris[n], topic_bank, action_bank)]

\* the nodelets that hold the bond topic of a manager
NodeletsOn(bank, bond_topic) ==
    {n \in DOMAIN bank : bank[n].is_nodelet /\ bond_topic \in bank[n].all_topic_names}

\* one iteration of the outer loop of
\* _populate_node_builders_with_nodelet_and_manager_info; bond_topic is the
\* 'bond/Status' topic of the manager that its dict yields last
link_nodelets_to_manager(bank, manager_node_name, bond_topic) ==
    IF ~bank[manager_node_name].is_nodelet_manager THEN bank
    ELSE [n \in DOMAIN bank |->
            [bank[n] EXCEPT
                !.nodelet_manager_name =
                    IF n \in NodeletsOn(bank, bond_topic) THEN manager_node_name ELSE @,
                !.nodelet_names =
                    IF n = manager_node_name THEN @ \cup NodeletsOn(bank, bond_topic) ELSE @]]

\* _populate_node_builders_with_nodelet_and_manager_info, for the order in
\* which the dict of the bank yields the names, and the bond topic that the
\* dict of each manager yields last
RECURSIVE populate_node_builders_with_nodelet_and_manager_info(_, _, _)
populate_node_builders_with_nodelet_and_manager_info(bank, order, last_bond_topic) ==
    IF order = <<>> THEN bank
    ELSE populate_node_builders_with_nodelet_and_manager_info(
             link_nodelets_to_manager(bank, Head(order), last_bond_topic[Head(order)]),
             Tail(order), last_bond_topic)

\* the 'bond/Status' topics of a node
BondTopicsOf(node_builder) ==
    {t \in node_builder.all_topic_names : node_builder.topic_names_to_types[t] = BondStatus}

\* the choices of the last bond topic of every manager (None for the others)
LastBondTopics(bank) ==
    {f \in [DOMAIN bank -> UNION {BondTopicsOf(bank[n]) : n \in DOMAIN bank} \cup {NoneV}] :
        \A n \in DOMAIN bank :
            IF bank[n].is_nodelet_manager THEN f[n] \in BondTopicsOf(bank[n])
            ELSE f[n] = NoneV}

(***************************************************************************)
(* The node bank of a system of three nodes and '/roslaunch': each node    *)
(* publishes a subset of two 'bond/Status' topics and may provide the      *)
(* three nodelet manager services.                                         *)
(***************************************************************************)
BankNodes == {<<"/", "na">>, <<"/", "nb">>, <<"/", "nc">>}
Roslaunch == <<"/", "roslaunch">>
BondTopics == {<<"/", "b1", "/", "bond">>, <<"/", "b2", "/", "bond">>}
ManagerServices ==
    (<<"/", "list">> :> NodeletList) @@ (<<"/", "load_nodelet">> :> NodeletLoad)
        @@ (<<"/", "unload_nodelet">> :> NodeletUnload)

\* what the master reports for a node: its bond topics, its manager services
Profiles == [bonds : SUBSET BondTopics, services : BOOLEAN]
\* master.getTopicTypes()
BankTopicTypes ==
    [i \in 1..Len(Sorted(BondTopics \cup {RosoutTopic})) |->
        <<Sorted(BondTopics \cup {RosoutTopic})[i],
          IF Sorted(BondTopics \cup {RosoutTopic})[i] = RosoutTopic
          THEN <<"rosgraph_msgs", "/", "Log">> ELSE BondStatus>>]

BankPublishersOf(profiles, topic_name) ==
    IF topic_name = RosoutTopic THEN {Roslaunch}
    ELSE {n \in DOMAIN profiles : topic_name \in profiles[n].bonds}

BankPublishedTopics(profiles) ==
    Sorted({t \in BondTopics \cup {RosoutTopic} : BankPublishersOf(profiles, t) # {}})

\* the publishers list of master.getSystemState()
BankPublishers(profiles) ==
    [i \in 1..Len(BankPublishedTopics(profiles)) |->
        <<BankPublishedTopics(profiles)[i],
          Sorted(BankPublishersOf(profiles, BankPublishedTopics(profiles)[i]))>>]

BankServiceNames(profiles) ==
    Sorted({n \o s : n \in {x \in DOMAIN profiles : profiles[x].services},
                                s \in DOMAIN ManagerServices})

\* the services list of master.getSystemState(), with the type of each
BankServices(profiles) ==
    [i \in 1..Len(BankServiceNames(profiles)) |->
        <<BankServiceNames(profiles)[i],
          <<name_base(BankServiceNames(profiles)[i])>>,
          ManagerServices[name_suffix(BankServiceNames(profiles)[i])]>>]

\* the URI that the master returns for every node of a bank
BankUris(bank, known) ==
    [n \in DOMAIN bank |-> IF known THEN <<"http://host">> ELSE UnknownUri(n)]

NodeBankInit ==
    /\ nodeBank = EmptyDict /\ bpc = "collecting"
    /\ BankRestIdle

\* ROSSnapshot._collect_rosgraph_info, on the node bank
CollectRosgraphInfo(profiles) ==
    /\ bpc = "collecting"
    /\ nodeBank' = collect_rosgraph_info(BankTopicTypes, BankPublishers(profiles),
                                         <<>>, BankServices(profiles))
    /\ bpc' = "collected"
    /\ UNCHANGED bankRest

\* NodeBankBuilder.prepare: the filter, the prepare of every NodeBuilder,
\* and _post_prepare, for every order in which the dicts may yield their keys
PrepareNodeBank(known) ==
    /\ bpc = "collected"
    /\ \E prepared \in {NodeBank_prepare_builders(nodeBank, BankUris(nodeBank, known),
                                                   topicBank, actions)} :
         \E order \in IterationOrders(DOMAIN prepared) :
           \E last_bond_topic \in LastBondTopics(prepared) :
             nodeBank' = populate_node_builders_with_nodelet_and_manager_info(
                             prepared, order, last_bond_topic)
    /\ bpc' = "prepared"
    /\ UNCHANGED bankRest

NodeBankNext ==
    \/ \E profiles \in [BankNodes -> Profiles] : CollectRosgraphInfo(profiles)
    \/ \E known \in BOOLEAN : PrepareNodeBank(known)

SpecNodeBank == NodeBankInit /\ [][NodeBankNext]_vars

\* a nodelet and a manager hold a 'bond/Status' topic of the same name
ShareBondTopic(nodelet_node, manager_node) ==
    BondTopicsOf(nodelet_node) \cap BondTopicsOf(manager_node) # {}

\* C11: after NodeBankBuilder.prepare, every nodelet that has a
\* 'bond/Status' topic name in common with a manager is linked to such a
\* manager: its nodelet_manager_name is the name of a manager that it shares
\* a bond topic with, and the nodelet_names of that manager hold the nodelet
C11_NodeletIsLinkedToManagerOfSharedBond ==
    bpc = "prepared" =>
        \A n \in DOMAIN nodeBank :
            (/\ nodeBank[n].is_nodelet
             /\ \E m \in DOMAIN nodeBank :
                    nodeBank[m].is_nodelet_manager /\ ShareBondTopic(nodeBank[n], nodeBank[m]))
            => \E m \in DOMAIN nodeBank :
                   /\ nodeBank[m].is_nodelet_manager
                   /\ ShareBondTopic(nodeBank[n], nodeBank[m])
                   /\ nodeBank[n].nodelet_manager_name = m
                   /\ n \in nodeBank[m].nodelet_names

\* C28: after NodeBankBuilder.prepare, a node n has the nodelet_manager_name
\* m if and only if the nodelet_names of m hold n; so the nodelet_names of
\* two managers hold no common node
C28_NodeletLinksAreSymmetric ==
    bpc = "prepared" =>
        /\ \A n, m \in DOMAIN nodeBank :
              (nodeBank[n].nodelet_manager_name = m) <=> (n \in nodeBank[m].nodelet_names)
        /\ \A m, o \in DOMAIN nodeBank :
              m # o => nodeBank[m].nodelet_names \cap nodeBank[o].nodelet_names = {}

(***************************************************************************)
(* ROSSnapshot._match_token_types: the names of one kind that a deployed   *)
(* node holds are matched against the names that its specification holds.  *)
(* The tokens are strings over the characters a, b and c.                  *)
(***************************************************************************)
\* the order of the characters of the names
CharRank(c) ==
    CASE c = "/" -> 0
      [] c = "a" -> 1
      [] c = "b" -> 2
      [] c = "c" -> 3

\* a <= b for two names
RECURSIVE NameLeq(_, _)
NameLeq(a, b) ==
    IF a = <<>> THEN TRUE
    ELSE IF b = <<>> THEN FALSE
    ELSE IF CharRank(Head(a)) < CharRank(Head(b)) THEN TRUE
    ELSE IF CharRank(Head(a)) > CharRank(Head(b)) THEN FALSE
    ELSE NameLeq(Tail(a), Tail(b))

\* sorted(S) for a set S of names
RECURSIVE sorted_names(_)
sorted_names(S) ==
    IF S = {} THEN <<>>
    ELSE <<CHOOSE x \in S : \A y \in S : NameLeq(x, y)>>
             \o sorted_names(S \ {CHOOSE x \in S : \A y \in S : NameLeq(x, y)})

\* a variant in which the names keep the order of their insertion
insertion_order(order) == order

\* sorted(io_names), for the order in which the dict yields its keys
sorted_io_names(order) == sorted_names(Range(order))

\* sub in s, for two strings
IsSubstring(sub, s) ==
    \E i \in 0..(Len(s) - Len(sub)) : SubSeq(s, i + 1, i + Len(sub)) = sub

\* a variant in which a token is searched for the name of the specification
token_holds_name(token, ss) == IsSubstring(ss, token)

\* token in ss
token_in(token, ss) == IsSubstring(token, ss)

\* the loops 'for test in sorted(...)': the first name of the given type
RECURSIVE first_of_type(_, _, _)
first_of_type(tests, spec_types, io_type) ==
    IF tests = <<>> THEN NoneV
    ELSE IF spec_types[Head(tests)] = io_type THEN Head(tests)
    ELSE first_of_type(Tail(tests), spec_types, io_type)

\* the set 'potential' of one iteration
potential_tokens(available_tokens, token) ==
    {ss \in available_tokens : token_in(token, ss)}

\* the value of io_names[io_name] after the loop over sorted(potential)
after_potential(t, io_name) ==
    IF first_of_type(sorted_names(potential_tokens(t.available_tokens, LastToken(io_name, "/"))),
                     t.spec_types.val, t.io_types[io_name]) # NoneV
    THEN first_of_type(sorted_names(potential_tokens(t.available_tokens, LastToken(io_name, "/"))),
                       t.spec_types.val, t.io_types[io_name])
    ELSE t.io_names[io_name]

\* the value of io_names[io_name] after the loop over sorted(remaining)
after_remaining(t, io_name) ==
    IF after_potential(t, io_name) # NoneV THEN after_potential(t, io_name)
    ELSE first_of_type(
             sorted_names(t.available_tokens
                          \ potential_tokens(t.available_tokens, LastToken(io_name, "/"))),
             t.spec_types.val, t.io_types[io_name])

\* a variant in which no match is exact
no_exact_match(t, io_name) == FALSE

\* the test of the exact match
is_exact_match(t, io_name) ==
    /\ LastToken(io_name, "/") \in t.available_tokens
    /\ t.io_types[io_name] = t.spec_types.val[LastToken(io_name, "/")]

\* a variant in which a name of the specification that was assigned stays
\* available
match_without_consuming(t, io_name) ==
    IF is_exact_match(t, io_name)
    THEN [t EXCEPT !.io_names[io_name] = LastToken(io_name, "/")]
    ELSE [t EXCEPT !.io_names[io_name] = after_remaining(t, io_name),
                   !.io_is_valid = @ /\ after_remaining(t, io_name) # NoneV]

\* one iteration of the loop over sorted(io_names)
match_io_name(t, io_name) ==
    IF is_exact_match(t, io_name)
    THEN [t EXCEPT !.io_names[io_name] = LastToken(io_name, "/"),
                   !.available_tokens = @ \ {LastToken(io_name, "/")}]
    ELSE [t EXCEPT !.io_names[io_name] = after_remaining(t, io_name),
                   !.available_tokens = @ \ {after_remaining(t, io_name)},
                   !.io_is_valid = @ /\ after_remaining(t, io_name) # NoneV]

\* the locals at the entry of the loop; order is the order in which io_names
\* yields its names, io_types[n] is io_builders[n].construct_type, and
\* spec_types is a dict or None
match_locals(order, io_types, spec_types) ==
    [io_names |-> [n \in Range(order) |-> NoneV], io_types |-> io_types,
     spec_types |-> spec_types, order |-> order,
     available_tokens |-> IF spec_types.isNone THEN {} ELSE DOMAIN spec_types.val,
     todo |-> IF spec_types.isNone THEN <<>> ELSE sorted_io_names(order),
     io_is_valid |-> TRUE, result |-> Absent]

\* the whole loop
RECURSIVE match_all(_, _)
match_all(t, todo) ==
    IF todo = <<>> THEN t ELSE match_all(match_io_name(t, Head(todo)), Tail(todo))

\* 'return io_is_valid'
match_return(t) ==
    [t EXCEPT !.todo = <<>>, !.result = IF t.io_is_valid THEN PyTrue ELSE PyFalse]

\* _match_token_types: the locals when the call returns
match_token_types(order, io_types, spec_types) ==
    IF spec_types.isNone
    THEN [match_locals(order, io_types, spec_types) EXCEPT
             !.result = IF Len(order) > 0 THEN PyFalse ELSE NoneV]
    ELSE match_return(
             match_all(match_locals(order, io_types, spec_types), sorted_io_names(order)))

(***************************************************************************)
(* One call of _match_token_types, on at most MaxIoNames names of a node   *)
(* and a specification of at most MaxSpecNames names (or none).            *)
(***************************************************************************)
MaxIoNames == 2
MaxSpecNames == 2
MatchTokens == {<<"a">>, <<"b">>, <<"a", "b">>, <<"b", "c">>}
MatchTypes == {<<"int">>, <<"str">>}
IoNamePool == {<<"/", ns, "/">> \o token : ns \in {"a", "b"}, token \in MatchTokens}

\* the orders in which a dict of at most MaxIoNames names may yield them
IoNameOrders ==
    UNION {IterationOrders(S) : S \in {T \in SUBSET IoNamePool : Cardinality(T) <= MaxIoNames}}

\* the dicts of a specification, and None
SpecTypeDicts ==
    {SomeDict(d) : d \in UNION {[S -> MatchTypes] :
                     S \in {T \in SUBSET MatchTokens : Cardinality(T) <= MaxSpecNames}}}
    \cup {NoneDict}

MatchInit ==
    /\ \E order \in IoNameOrders :
         \E io_types \in [Range(order) -> MatchTypes] :
           \E spec_types \in SpecTypeDicts :
              tm = match_locals(order, io_types, spec_types)
    /\ tpc = "called"
    /\ MatchRestIdle

\* the branch 'spec_types is None'
MatchNoSpecification ==
    /\ tpc = "called" /\ tm.spec_types.isNone
    /\ tm' = match_token_types(tm.order, tm.io_types, tm.spec_types)
    /\ tpc' = "returned"
    /\ UNCHANGED matchRest

\* one iteration of the loop over sorted(io_names)
MatchIoName ==
    /\ tpc = "called" /\ ~tm.spec_types.isNone /\ tm.todo # <<>>
    /\ tm' = [match_io_name(tm, Head(tm.todo)) EXCEPT !.todo = Tail(tm.todo)]
    /\ UNCHANGED <<tpc, matchRest>>

\* 'return io_is_valid'
MatchReturn ==
    /\ tpc = "called" /\ ~tm.spec_types.isNone /\ tm.todo = <<>>
    /\ tm' = match_return(tm)
    /\ tpc' = "returned"
    /\ UNCHANGED matchRest

MatchNext == MatchNoSpecification \/ MatchIoName \/ MatchReturn

SpecMatch == MatchInit /\ [][MatchNext]_vars

\* the final path segment of the name that the next iteration handles
NextToken == LastToken(Head(tm.todo), "/")

\* the names of the specification of the type of the name that the next
\* iteration handles, among a set of them
OfNextType(tokens) ==
    {k \in tokens : tm.spec_types.val[k] = tm.io_types[Head(tm.todo)]}

\* the next iteration has an exact match among the names not yet consumed
NextIsExact == NextToken \in OfNextType(tm.available_tokens)

\* C12 as the claim states it: when the call returns, every name of the node
\* whose final path segment is a name of the specification, with the type
\* that the specification declares for it, is assigned that name
C12_ExactMatchIsAssignedInEveryCall ==
    (tpc = "returned" /\ ~tm.spec_types.isNone) =>
        \A n \in DOMAIN tm.io_names :
            (/\ LastToken(n, "/") \in DOMAIN tm.spec_types.val
             /\ tm.spec_types.val[LastToken(n, "/")] = tm.io_types[n])
            => tm.io_names[n] = LastToken(n, "/")

\* C12, amended: an iteration on a name whose final path segment is a name
\* of the specification that no earlier iteration consumed, with the type
\* that the specification declares for it, assigns that name and consumes it
C12_UnconsumedExactMatchIsAssigned ==
    [][(MatchIoName /\ NextIsExact) =>
          /\ tm'.io_names[Head(tm.todo)] = NextToken
          /\ tm'.available_tokens = tm.available_tokens \ {NextToken}
          /\ tm'.io_is_valid = tm.io_is_valid]_vars

\* two names are matched, the second of them exactly, after the first
\* consumed another name of the specification
C12_Witness ==
    /\ tpc = "returned" /\ Len(tm.order) = 2
    /\ \E n, o \in DOMAIN tm.io_names :
          /\ n # o /\ tm.io_names[n] = LastToken(n, "/")
          /\ tm.io_names[o] \notin {NoneV, LastToken(o, "/")}

\* C13 as the claim states it: an iteration without exact match, when a
\* name of the specification not yet consumed is a substring of the final
\* path segment and has the type of the name, assigns such a name
C13_SubstringOfSegmentIsPreferred ==
    [][(/\ MatchIoName /\ ~NextIsExact
        /\ \E k \in OfNextType(tm.available_tokens) : IsSubstring(k, NextToken))
       => /\ tm'.io_names[Head(tm.todo)] \in OfNextType(tm.available_tokens)
          /\ IsSubstring(tm'.io_names[Head(tm.todo)], NextToken)]_vars

\* C13, amended: an iteration without exact match, when a name of the
\* specification not yet consumed holds the final path segment as a
\* substring and has the type of the name, assigns the smallest such name,
\* whatever the other names of that type not yet consumed
C13_NameHoldingSegmentIsPreferred ==
    [][(/\ MatchIoName /\ ~NextIsExact
        /\ \E k \in OfNextType(tm.available_tokens) : IsSubstring(NextToken, k))
       => /\ tm'.io_names[Head(tm.todo)] \in OfNextType(tm.available_tokens)
          /\ IsSubstring(NextToken, tm'.io_names[Head(tm.todo)])
          /\ \A k \in OfNextType(tm.available_tokens) :
                IsSubstring(NextToken, k) => NameLeq(tm'.io_names[Head(tm.todo)], k)
          /\ tm'.available_tokens = tm.available_tokens \ {tm'.io_names[Head(tm.todo)]}]_vars

\* a name is assigned a name of the specification that holds its final path
\* segment, while a smaller name of the same type stays unconsumed
C13_Witness ==
    /\ tpc = "returned"
    /\ \E n \in DOMAIN tm.io_names :
          /\ tm.io_names[n] \notin {NoneV, LastToken(n, "/")}
          /\ IsSubstring(LastToken(n, "/"), tm.io_names[n])
          /\ \E k \in tm.available_tokens :
                /\ tm.spec_types.val[k] = tm.io_types[n]
                /\ NameLeq(k, tm.io_names[n])
                /\ ~IsSubstring(LastToken(n, "/"), k)

\* C14: the assignment and the verdict of a call are those of the call on
\* the same names in sorted order, whatever the order in which the dict of
\* the names yields them (the specification is read through set() and
\* sorted() only); and an iteration for which neither the exact match nor
\* the match by substring applies assigns the smallest name of the
\* specification not yet consumed that has the type of the name
C14_MatchingIsDeterministic ==
    [][/\ tpc' = "returned" =>
            /\ tm'.io_names =
                  match_token_types(sorted_names(Range(tm'.order)), tm'.io_types,
                                    tm'.spec_types).io_names
            /\ tm'.result =
                  match_token_types(sorted_names(Range(tm'.order)), tm'.io_types,
                                    tm'.spec_types).result
       /\ (/\ MatchIoName /\ ~NextIsExact
           /\ ~\E k \in OfNextType(tm.available_tokens) : IsSubstring(NextToken, k)
           /\ OfNextType(tm.available_tokens) # {})
          => /\ tm'.io_names[Head(tm.todo)] \in OfNextType(tm.available_tokens)
             /\ \A k \in OfNextType(tm.available_tokens) :
                   NameLeq(tm'.io_names[Head(tm.todo)], k)]_vars

\* the dict yields two names in an order that is not the sorted one, and
\* one of them is assigned by type only, a greater name of that type
\* staying unconsumed
C14_Witness ==
    /\ tpc = "returned" /\ Len(tm.order) = 2
    /\ tm.order # sorted_names(Range(tm.order))
    /\ \E n \in DOMAIN tm.io_names :
          /\ tm.io_names[n] # NoneV
          /\ ~IsSubstring(LastToken(n, "/"), tm.io_names[n])
          /\ \E k \in tm.available_tokens :
                tm.spec_types.val[k] = tm.io_types[n] /\ k # tm.io_names[n]

\* C30: in a call that starts with every name of the node unassigned, no
\* name of the specification is assigned to two names of the node, and
\* every name of the node that is assigned one has the type that the
\* specification declares for it
C30_AssignedKeysAreDistinctAndOfEqualType ==
    \A n \in DOMAIN tm.io_names :
        tm.io_names[n] # NoneV =>
            /\ tm.io_names[n] \in DOMAIN tm.spec_types.val
            /\ tm.spec_types.val[tm.io_names[n]] = tm.io_types[n]
            /\ \A o \in DOMAIN tm.io_names \ {n} : tm.io_names[o] # tm.io_names[n]

\* two names of the same type and of the same final path segment are
\* assigned: one the name of the specification that equals the segment, the
\* other another name of that type
C30_Witness ==
    /\ tpc = "returned" /\ Len(tm.order) = 2
    /\ \E n, o \in DOMAIN tm.io_names :
          /\ n # o /\ LastToken(n, "/") = LastToken(o, "/")
          /\ tm.io_types[n] = tm.io_types[o]
          /\ tm.io_names[n] = LastToken(n, "/")
          /\ tm.io_names[o] \notin {NoneV, tm.io_names[n]}

(***************************************************************************)
(* ROSSnapshot._validate_node_builder: the names of a deployed node are    *)
(* matched, kind by kind, against its specification.                       *)
(***************************************************************************)
\* the kinds of names in the order of the calls of _match_token_types
MatchedKinds ==
    <<"read_parameter_names", "set_parameter_names", "action_clients", "action_servers",
      "published_topic_names", "subscribed_topic_names", "service_names_with_remap">>

\* the attribute of the specification that a kind is matched against
SpecAttribute(io_kind) ==
    CASE io_kind \in {"read_parameter_names", "set_parameter_names"} -> "parameters"
      [] io_kind = "action_clients" -> "action_clients"
      [] io_kind = "action_servers" -> "action_servers"
      [] io_kind = "published_topic_names" -> "published_topics"
      [] io_kind = "subscribed_topic_names" -> "subscribed_topics"
      [] io_kind = "service_names_with_remap" -> "services_provided"

\* 'node_is_valid and self._match_token_types(...)', call after call: the
\* call is evaluated when node_is_valid is true, and its value is the new
\* node_is_valid; v holds node_is_valid and the dicts of the node
RECURSIVE match_kinds(_, _, _, _)
match_kinds(v, kinds, node_builder, node_spec) ==
    IF kinds = <<>> THEN v
    ELSE IF v.node_is_valid # PyTrue THEN match_kinds(v, Tail(kinds), node_builder, node_spec)
    ELSE match_kinds(
             [node_is_valid |->
                  match_token_types(node_builder[Head(kinds)].order,
                                    node_builder[Head(kinds)].io_types,
                                    node_spec[SpecAttribute(Head(kinds))]).result,
              io_names |->
                  [v.io_names EXCEPT ![Head(kinds)] =
                      match_token_types(node_builder[Head(kinds)].order,
                                        node_builder[Head(kinds)].io_types,
                                        node_spec[SpecAttribute(Head(kinds))]).io_names]],
             Tail(kinds), node_builder, node_spec)

\* the two tests on the number of parameters
parameter_counts_are_valid(node_builder, node_spec) ==
    /\ ~(Cardinality(DOMAIN node_spec.parameters.val)
            < Len(node_builder.read_parameter_names.order))
    /\ ~(Cardinality(DOMAIN node_spec.parameters.val)
            < Len(node_builder.set_parameter_names.order))

\* the dicts of the node before the call: no name is matched
UnmatchedNames(node_builder) ==
    [io_kind \in Range(MatchedKinds) |-> [n \in Range(node_builder[io_kind].order) |-> NoneV]]

\* _validate_node_builder: the value that it returns, or the TypeError of
\* len(None), and the dicts of the node
validate_node_builder(node_builder, node_spec) ==
    IF node_spec.parameters.isNone
    THEN [raised |-> TRUE, node_is_valid |-> Absent,
          io_names |-> UnmatchedNames(node_builder)]
    ELSE [raised |-> FALSE]
         @@ match_kinds([node_is_valid |->
                             IF parameter_counts_are_valid(node_builder, node_spec)
                             THEN PyTrue ELSE PyFalse,
                         io_names |-> UnmatchedNames(node_builder)],
                        MatchedKinds, node_builder, node_spec)

(***************************************************************************)
(* One call of _validate_node_builder, on a node that reads and sets the   *)
(* parameters '/a/a' and '/a/b' and holds at most one name of every other  *)
(* kind.                                                                   *)
(***************************************************************************)
IntType == <<"int">>
StrType == <<"str">>
NameA == <<"/", "a", "/", "a">>
NameB == <<"/", "a", "/", "b">>

\* the names of one kind of a node: the order of the dict, and the types
NoNames == [order |-> <<>>, io_types |-> EmptyDict]
OneName == [order |-> <<NameA>>, io_types |-> (NameA :> IntType)]
TwoNames == [order |-> <<NameA, NameB>>, io_types |-> (NameA :> IntType) @@ (NameB :> IntType)]

\* a kind of names and the dict of the specification for it: no name and
\* None, no name and an entry, a name that matches, a name of another type
KindCases ==
    {[names |-> NoNames, spec |-> NoneDict],
     [names |-> NoNames, spec |-> SomeDict(<<"a">> :> IntType)],
     [names |-> OneName, spec |-> SomeDict(<<"a">> :> IntType)],
     [names |-> OneName, spec |-> SomeDict(<<"a">> :> StrType)]}

ParameterSpecs ==
    {NoneDict, SomeDict(<<"a">> :> IntType),
     SomeDict((<<"a">> :> IntType) @@ (<<"b">> :> IntType))}

ValidateInit ==
    /\ \E parameters \in ParameterSpecs :
         \E read \in {NoNames, OneName, TwoNames} :
           \E set \in {NoNames, OneName} :
             \E cases \in [{"action_clients", "action_servers", "published_topic_names",
                            "subscribed_topic_names", "service_names_with_remap"}
                           -> KindCases] :
                vn = [node_builder |->
                          [io_kind \in Range(MatchedKinds) |->
                              IF io_kind = "read_parameter_names" THEN read
                              ELSE IF io_kind = "set_parameter_names" THEN set
                              ELSE cases[io_kind].names],
                      node_spec |->
                          [attribute \in {SpecAttribute(k) : k \in Range(MatchedKinds)} |->
                              IF attribute = "parameters" THEN parameters
                              ELSE (CHOOSE c \in Range(cases) :
                                       \E k \in DOMAIN cases :
                                           SpecAttribute(k) = attribute /\ c = cases[k]).spec],
                      outcome |-> Absent]
    /\ vpc = "called"
    /\ ValidRestIdle

\* ROSSnapshot._validate_node_builder
ValidateNodeBuilder ==
    /\ vpc = "called"
    /\ \E outcome \in {validate_node_builder(vn.node_builder, vn.node_spec)} :
          vn' = [vn EXCEPT !.outcome = outcome]
    /\ vpc' = "returned"
    /\ UNCHANGED validRest

ValidateNext == ValidateNodeBuilder

SpecValidate == ValidateInit /\ [][ValidateNext]_vars

\* the specification holds at least as many parameters as the node reads,
\* and as many as it sets
ParameterCountsAreEnough ==
    /\ Cardinality(DOMAIN vn.node_spec.parameters.val)
          >= Len(vn.node_builder.read_parameter_names.order)
    /\ Cardinality(DOMAIN vn.node_spec.parameters.val)
          >= Len(vn.node_builder.set_parameter_names.order)

\* every name of a kind can be matched: a call of _match_token_types on the
\* kind leaves no name unmatched
KindIsMatched(io_kind) ==
    \A n \in Range(vn.node_builder[io_kind].order) :
        match_token_types(vn.node_builder[io_kind].order, vn.node_builder[io_kind].io_types,
                          vn.node_spec[SpecAttribute(io_kind)]).io_names[n] # NoneV

\* C15: _validate_node_builder returns True exactly when the specification
\* holds at least as many parameters as the node reads and as it sets, and
\* every kind of names matched all the names that the node holds of it; a
\* kind without names and without dict in the specification does not make
\* the node invalid
C15_ValidIffCountsAndEveryKindMatched ==
    (vpc = "returned" /\ ~vn.outcome.raised) =>
        (vn.outcome.node_is_valid = PyTrue
            <=> (ParameterCountsAreEnough /\ \A k \in Range(MatchedKinds) : KindIsMatched(k)))

(***************************************************************************)
(* _BankMetamodel.__getitem__ and _BankBuilder.__getitem__: a bank is a    *)
(* dict from names to instances; an instance is the number of its          *)
(* creation, the dict the list of its items in the order of insertion.     *)
(***************************************************************************)
\* name in d
DictHolds(d, name) == \E i \in 1..Len(d) : d[i][1] = name

\* d[name]
DictValue(d, name) == d[CHOOSE i \in 1..Len(d) : d[i][1] = name][2]

\* d.keys()
DictKeys(d) == [i \in 1..Len(d) |-> d[i][1]]

\* d[name] = value
dict_setitem(d, name, value) ==
    IF DictHolds(d, name)
    THEN [i \in 1..Len(d) |-> IF d[i][1] = name THEN <<name, value>> ELSE d[i]]
    ELSE Append(d, <<name, value>>)

\* del d[name]
dict_delitem(d, name) == SelectSeq(d, LAMBDA item : item[1] # name)

\* a variant in which every lookup creates an instance
getitem_creating_always(bank, name) ==
    [bank EXCEPT !.names_to_entities = dict_setitem(@, name, bank.made + 1),
                 !.made = @ + 1]

\* bank[name]: the bank after the lookup; the instance is created, by
\* _create_entity or _create_entity_builder, when the bank holds none
Bank_getitem(bank, name) ==
    IF ~DictHolds(bank.names_to_entities, name)
    THEN [bank EXCEPT !.names_to_entities = dict_setitem(@, name, bank.made + 1),
                      !.made = @ + 1]
    ELSE bank

\* _BankBuilder.remove_entity_builder
remove_entity_builder(bank, name) ==
    [bank EXCEPT !.names_to_entities = dict_delitem(@, name)]

(***************************************************************************)
(* Lookups on one bank, of three names, with at most MaxInstances          *)
(* instances created; a bank of builders also removes builders.            *)
(***************************************************************************)
MaxInstances == 4
BankNames == {<<"/", "x">>, <<"/", "y">>, <<"/", "z">>}

LookupInit ==
    /\ \E bank_kind \in {"metamodel", "builder"} :
          bk = [bank_kind |-> bank_kind, names_to_entities |-> <<>>, made |-> 0,
                asked |-> NoneV, returned |-> NoneV, looked_up |-> {}]
    /\ LookupRestIdle

\* entity = bank[name]
Lookup(name) ==
    /\ DictHolds(bk.names_to_entities, name) \/ bk.made < MaxInstances
    /\ \E bank \in {Bank_getitem(bk, name)} :
          bk' = [bank EXCEPT !.asked = name,
                             !.returned = DictValue(bank.names_to_entities, name),
                             !.looked_up = @ \cup {name}]
    /\ UNCHANGED lookupRest

\* _BankBuilder.remove_entity_builder(name); the names looked up since are
\* counted anew
RemoveEntityBuilder(name) ==
    /\ bk.bank_kind = "builder"
    /\ DictHolds(bk.names_to_entities, name)
    /\ bk' = [remove_entity_builder(bk, name) EXCEPT !.asked = NoneV, !.returned = NoneV,
                                                      !.looked_up = @ \ {name}]
    /\ UNCHANGED lookupRest

LookupNext ==
    \/ \E name \in BankNames : Lookup(name)
    \/ \E name \in BankNames : RemoveEntityBuilder(name)

SpecLookup == LookupInit /\ [][LookupNext]_vars

\* the number of times that the keys of the bank hold a name
KeyCount(name) ==
    Cardinality({i \in 1..Len(bk.names_to_entities) : bk.names_to_entities[i][1] = name})

\* C16: on a bank of metamodels and on a bank of builders, a lookup of a
\* name that was looked up before returns the instance that the lookup
\* before returned; and the keys of the bank hold every name that was
\* looked up exactly once
C16_LookupIsIdempotent ==
    [][/\ \A name \in BankNames :
             (Lookup(name) /\ name \in bk.looked_up)
                 => bk'.returned = DictValue(bk.names_to_entities, name)
       /\ \A name \in bk'.looked_up : KeyCount(name)' = 1]_vars

\* a name is looked up for the second time, between lookups of other names
C16_Witness ==
    /\ bk.asked # NoneV /\ bk.returned < bk.made
    /\ Len(bk.names_to_entities) = 3

\* the banks of the remodeler that hold the name
BanksWith(name) == {b \in chris_model_banks(kind) : name \in DOMAIN chris[b]}

\* the place of a bank in the order in which the loop of remodel() meets the
\* banks
BankPlace(b) == CHOOSE i \in 1..Len(bankOrder) : bankOrder[i] = b

\* C19: when the loop of the node remodeler meets a complete name that the
\* node bank, the nodelet bank or the nodelet manager bank holds, it merges
\* the HAROS node into one entity, the one of that name in the first of the
\* banks, in the order in which the loop meets them, that holds the name;
\* every other entity stays as it was and no bank gets a new name.
C19_MergeIntoFirstBankHoldingName ==
    [][(/\ kind = "node"
        /\ ~IsPlaceholderName(Strip(last'.name))
        /\ BanksWith(last'.name) # {})
          => /\ last'.op = "merge"
             /\ last'.bank \in BanksWith(last'.name)
             /\ \A b \in BanksWith(last'.name) : BankPlace(last'.bank) <= BankPlace(b)
             /\ \A b \in chris_model_banks(kind) :
                   /\ DOMAIN chris'[b] = DOMAIN chris[b]
                   /\ \A n \in DOMAIN chris[b] :
                         (b # last'.bank \/ n # last'.name) => chris'[b][n] = chris[b][n]]_vars

\* two of the three banks hold the name, the first bank of the loop does
\* not, and the merge changed the entity of the second bank
C19_Witness ==
    /\ kind = "node" /\ last.op = "merge" /\ last.updated
    /\ Cardinality(BanksWith(last.name)) = 2
    /\ last.bank = bankOrder[2]
    /\ chris[bankOrder[2]][last.name].version = 1
    /\ chris[bankOrder[3]][last.name].version = 0

\* the links of a HAROS node that go into a map of the CHRIS node
MapLinks(h, field) ==
    CASE field = "set_parameter_names" -> h.writes
      [] field = "read_parameter_names" -> h.reads
      [] field = "provided_services" -> h.servers

NodeMapFields == {"set_parameter_names", "read_parameter_names", "provided_services"}

\* the type that the first link of the name gives
FirstTypeOf(links, name) ==
    links[CHOOSE i \in DOMAIN links :
             /\ links[i][1] = name
             /\ \A j \in 1..(i - 1) : links[j][1] # name][2]

\* C20: when a HAROS node is merged into a CHRIS node, for each of
\* set_parameter_names, read_parameter_names and provided_services: every
\* complete name of a link that the map lacks is added with the type of the
\* link and the merge reports an update; every name that the map holds
\* keeps its type, and a link that gives another type logs a conflict only.
C20_NodeMapsGainAbsentKeysAndKeepPresentOnes ==
    [][(kind = "node" /\ last'.op = "merge")
          => \A field \in NodeMapFields :
               LET links == MapLinks(last'.h, field)
               IN  /\ \A i \in DOMAIN links :
                          IF links[i][1] \in DOMAIN Before[field]
                          THEN links[i][2] # Before[field][links[i][1]]
                                  => "conflict" \in last'.log
                          ELSE ~IsPlaceholderName(Strip(links[i][1])) =>
                                  /\ links[i][1] \in DOMAIN After[field]
                                  /\ After[field][links[i][1]] = FirstTypeOf(links, links[i][1])
                                  /\ last'.updated
                   /\ \A name \in DOMAIN Before[field] :
                          /\ name \in DOMAIN After[field]
                          /\ After[field][name] = Before[field][name]]_vars

\* the merge added /p2 and /s2 with the types of the links, and kept the
\* types of /p1 and /s1 although the links give other types
C20_Witness ==
    /\ kind = "node" /\ last.op = "merge" /\ last.updated /\ "conflict" \in last.log
    /\ last.h.writes # <<>> /\ last.h.servers # <<>>
    /\ chris[last.bank][last.name].set_parameter_names[P1] = <<"str">>
    /\ chris[last.bank][last.name].set_parameter_names[P2] = <<"int">>
    /\ chris[last.bank][last.name].read_parameter_names[P2] = <<"int">>
    /\ chris[last.bank][last.name].provided_services[S1] = TyA
    /\ chris[last.bank][last.name].provided_services[S2] = TyB
    /\ chris[last.bank][last.name].version = 1

\* the topics that an Action of the action bank holds under its suffixes
ActionMemberTopics ==
    UNION {{a \o s : s \in actionBank[a]} : a \in DOMAIN actionBank}

\* C26: the topic bank held no member topic of an Action before the pass of
\* the TopicRemodeler, and holds none after any number of its iterations
C26_TopicBankHoldsNoActionTopic ==
    kind = "topic" =>
        \A b \in chris_model_banks("topic") :
            DOMAIN chris[b] \cap ActionMemberTopics = {}

\* the collection fields of the entities: sets, maps, maps that may be None
\* and lists
SetFields ==
    {"service_provider_node_names", "service_client_node_names", "publisher_node_names",
     "subscriber_node_names", "setting_node_names", "reading_node_names"}
MapFields ==
    {"set_parameter_names", "read_parameter_names", "provided_services", "client_services",
     "published_topic_names", "subscribed_topic_names"}
OptionalMapFields ==
    {"parameters", "services_provided", "published_topics", "subscribed_topics"}
ListFields == {"dependencies", "nodes"}
CollectionFields == SetFields \cup MapFields \cup OptionalMapFields \cup ListFields

\* the members of a set or list field, the keys of a map field
MembersOf(entity, field) ==
    CASE field \in SetFields -> entity[field]
      [] field \in MapFields -> DOMAIN entity[field]
      [] field \in OptionalMapFields -> DOMAIN entity[field].val
      [] field \in ListFields -> Range(entity[field])

\* C27: a merge of a HAROS instance into an entity that a bank holds removes
\* no member and no key of a collection field of the entity (node
\* client_services, service service_client_node_names, node specification
\* client_services and every other set or map only grow)
C27_MergeRemovesNothing ==
    [][ last'.op = "merge" /\ last' # last =>
            \A f \in CollectionFields \cap DOMAIN chris[last'.bank][last'.name] :
                MembersOf(chris[last'.bank][last'.name], f)
                    \subseteq MembersOf(chris'[last'.bank][last'.name], f)
      ]_vars

\* C23: a second pass with the same specification model changes nothing: the
\* merge of a HAROS instance right after the iteration that merged or created
\* the entity from the same instance leaves every field of every entity, its
\* version and its source as they are
C23_SecondMergeChangesNothing ==
    [][ (/\ last.op \in {"merge", "create"}
         /\ last'.op = "merge"
         /\ last'.h = last.h /\ last'.name = last.name /\ last'.bank = last.bank)
            => chris' = chris
      ]_vars

(***************************************************************************)
(* chris_ros_modeling and chris_haros_model_merger: the version of an      *)
(* entity, under update_attributes and under the remodelers.               *)
(***************************************************************************)
VersionNames == {<<"/", "p">>, <<"/", "q">>}

NoKeyword == [t |-> "no call"]

\* what was last done, to which entity, and the version that it had
Did(op, name, keyword, model_updated) ==
    [op |-> op, name |-> name, keyword |-> keyword, model_updated |-> model_updated,
     before |-> IF name \in DOMAIN ent THEN ent[name].version ELSE 0]

\* the entities as _EntityMetamodel.__new__ leaves them
VersionInit ==
    /\ ent = [name \in VersionNames |-> NewEntity(name)]
    /\ epc = Did("new", <<>>, NoKeyword, FALSE)
    /\ VersionRestIdle

\* entity.update_attributes(...), with or without the keyword 'version'
UpdateAttributes(name, keyword) ==
    /\ \E entity \in {update_version_attribute(ent[name], keyword)} :
          /\ entity.version <= MaxVersion
          /\ ent' = [ent EXCEPT ![name] = entity]
    /\ epc' = Did("update", name, keyword, FALSE)
    /\ UNCHANGED versionRest

\* remodel() finds the entity in a bank: the helper says whether it changed
\* it, and _update_chris_model_version follows
RemodelMerge(name, model_updated) ==
    /\ \E r \in {update_chris_model_version(ent[name], model_updated)} :
          /\ r.m.version <= MaxVersion
          /\ ent' = [ent EXCEPT ![name] = r.m]
    /\ epc' = Did("merge", name, NoKeyword, model_updated)
    /\ UNCHANGED versionRest

\* remodel() finds the name in no bank: the bank makes the entity, and
\* _initialize_chris_model_version follows
RemodelCreate(name) ==
    /\ ent[name] = NewEntity(name)
    /\ ent' = [ent EXCEPT ![name] = initialize_chris_model_version(NewEntity(name))]
    /\ epc' = Did("create", name, NoKeyword, FALSE)
    /\ UNCHANGED versionRest

VersionNext ==
    \/ \E name \in VersionNames : \E keyword \in VersionKeywords :
          UpdateAttributes(name, keyword)
    \/ \E name \in VersionNames : \E model_updated \in BOOLEAN :
          RemodelMerge(name, model_updated)
    \/ \E name \in VersionNames : RemodelCreate(name)

SpecVersion == VersionInit /\ [][VersionNext]_vars

\* C17: the version of an entity is 0 when the entity is made, it is 0
\* after the remodeler creates the entity, and every update_attributes and
\* every merge and create of a remodeler leaves it a natural number that is
\* at least what it was
C17_VersionNeverDecreases ==
    /\ \A name \in DOMAIN ent : ent[name].version = 0
    /\ [][/\ \A name \in DOMAIN ent :
                /\ ent'[name].version \in Nat
                /\ ent'[name].version >= ent[name].version
          /\ epc'.op = "create" => ent'[epc'.name].version = 0]_vars

\* an entity that the remodeler created and merged into is updated with a
\* negative version
C17_Witness ==
    /\ epc.op = "update" /\ epc.keyword = [t |-> "int", v |-> -1]
    /\ epc.before = 1
    /\ ent[epc.name].version = 2
    /\ ent[epc.name].source.t = "str"

(***************************************************************************)
(* chris_ros_snapshot: main() and ROSSnapshot.load_specifications.         *)
(***************************************************************************)
\* ROSModel.SPECIFICATION_TYPES
SPECIFICATION_TYPES ==
    <<"PACKAGE_SPECIFICATION", "NODE_SPECIFICATION", "MESSAGE_SPECIFICATION",
      "SERVICE_SPECIFICATION", "ACTION_SPECIFICATION">>

\* what the file of a bank gives: no file (the model has no such key), an
\* empty file (the bank is None), a bank without entities, a bank with
\* entities
BankFiles == {"missing", "none", "empty", "filled"}

\* what ROSModel.load_model gives: an exception, None (the folder holds
\* neither yaml nor pickle files), or a model of the banks that were read
SpecificationInputs ==
    {[load |-> load, banks |-> [spec_type \in Range(SPECIFICATION_TYPES) |-> "missing"]] :
        load \in {"raises", "none"}}
    \cup {[load |-> "model", banks |-> banks] :
            banks \in [Range(SPECIFICATION_TYPES) -> BankFiles]}

\* the body of the loop of load_specifications, for one specification type:
\* KeyError, or spec is None or len(spec.keys) < 1
spec_is_missing(banks, spec_type) ==
    \/ banks[spec_type] = "missing"
    \/ banks[spec_type] = "none" \/ banks[spec_type] = "empty"

RECURSIVE check_specifications(_, _, _)
check_specifications(banks, spec_types, missing_spec) ==
    IF spec_types = <<>> THEN missing_spec
    ELSE check_specifications(banks, Tail(spec_types),
                              IF spec_is_missing(banks, Head(spec_types))
                              THEN TRUE ELSE missing_spec)

\* a variant that looks at the model only, not at its banks
load_without_check_of_banks(input) == input.load = "model"

\* ROSSnapshot.load_specifications(source_folder)
load_specifications(input) ==
    IF input.load = "raises" THEN FALSE
    ELSE IF input.load = "none" THEN FALSE
    ELSE ~check_specifications(input.banks, SPECIFICATION_TYPES, FALSE)

\* the exit code of main: <<>> while it has not called sys.exit
NoExit == <<>>

\* the kinds of files that the options ask for
OutputOptions == SUBSET {"yaml", "pickle"}

MainInit ==
    /\ \E input \in SpecificationInputs, version \in BOOLEAN, outputs \in OutputOptions :
          mn = [input |-> input, version |-> version, outputs |-> outputs,
                pc |-> "start", loaded |-> FALSE, snapshot_ran |-> FALSE,
                deployment_model |-> FALSE, saved |-> {}, exit_code |-> NoExit]
    /\ MainRestIdle

\* --version: main prints the version and exits
PrintVersion ==
    /\ mn.pc = "start" /\ mn.version
    /\ mn' = [mn EXCEPT !.pc = "exited", !.exit_code = <<0>>]
    /\ UNCHANGED mainRest

\* main calls load_specifications, and sys.exit(-1) when it returns False
LoadSpecifications ==
    /\ mn.pc = "start" /\ ~mn.version
    /\ \E loaded \in {load_specifications(mn.input)} :
          mn' = [mn EXCEPT !.loaded = loaded,
                           !.pc = IF loaded THEN "loaded" ELSE "exited",
                           !.exit_code = IF loaded THEN NoExit ELSE <<-1>>]
    /\ UNCHANGED mainRest

\* main calls snapshot(); when it returns True the deployment model is
\* saved in the files that the options ask for
Snapshot(ok) ==
    /\ mn.pc = "loaded"
    /\ mn' = [mn EXCEPT !.snapshot_ran = TRUE, !.deployment_model = ok,
                        !.saved = IF ok THEN mn.outputs ELSE {},
                        !.pc = "returned"]
    /\ UNCHANGED mainRest

MainNext ==
    \/ PrintVersion
    \/ LoadSpecifications
    \/ \E ok \in BOOLEAN : Snapshot(ok)

SpecMain == MainInit /\ [][MainNext]_vars

\* the specification model cannot be loaded, or one of the five
\* specification banks is missing or has no entity
SpecificationsUnusable(input) ==
    \/ input.load # "model"
    \/ \E i \in DOMAIN SPECIFICATION_TYPES :
          input.banks[SPECIFICATION_TYPES[i]] # "filled"

\* C18: when the specification model cannot be loaded, or one of the
\* package, node, message, service and action specification banks is
\* missing or has no entity, load_specifications returns False and main
\* exits with -1 before snapshot(): no deployment model is built, and none
\* is saved
C18_UnusableSpecificationsEndMainBeforeSnapshot ==
    (/\ mn # EmptyDict /\ mn.pc # "start" /\ ~mn.version
     /\ SpecificationsUnusable(mn.input))
        => /\ ~mn.loaded
           /\ mn.pc = "exited" /\ mn.exit_code = <<-1>>
           /\ ~mn.snapshot_ran /\ ~mn.deployment_model /\ mn.saved = {}

\* the model is loaded, four banks have entities and the bank of action
\* specifications has none: main has exited
C18_Witness ==
    /\ mn.pc = "exited" /\ mn.exit_code = <<-1>>
    /\ mn.input.load = "model"
    /\ mn.input.banks["ACTION_SPECIFICATION"] = "empty"
    /\ \A i \in 1..4 : mn.input.banks[SPECIFICATION_TYPES[i]] = "filled"
    /\ mn.outputs = {"yaml", "pickle"}
(***************************************************************************)
(* ROSModelBuilder.prepare on the topic, action and node banks that        *)
(* ROSSnapshot._collect_rosgraph_info filled from one system state.        *)
(***************************************************************************)
builderRest ==
    <<mergerVars, nodeVars, matchVars, validVars, lookupVars, versionVars, mainVars,
      updateVars>>

BuilderInit ==
    /\ ActionIdle /\ NodeBankIdle
    /\ MergerIdle /\ NodeIdle /\ MatchIdle /\ ValidIdle /\ LookupIdle
    /\ VersionIdle /\ MainIdle /\ UpdateIdle

\* _collect_node_info: every pair of the system state fills the TopicBuilder
\* of the topic and the NodeBuilder of each of its nodes
CollectTopicsAndNodes(topic_types, publishers, subscribers) ==
    /\ apc = "idle"
    /\ topicBank' = collect_node_info(topic_types, publishers, subscribers)
    /\ nodeBank' = collect_rosgraph_info(topic_types, publishers, subscribers, <<>>)
    /\ apc' = "collected" /\ bpc' = "collected"
    /\ UNCHANGED <<actions, builderRest>>

\* the banks after the node bank prepared with the topic and action banks
prepare_node_bank(bank, known, topic_bank, action_bank) ==
    {populate_node_builders_with_nodelet_and_manager_info(
         NodeBank_prepare_builders(bank, BankUris(bank, known), topic_bank, action_bank),
         order, last_bond_topic) :
       order \in IterationOrders({x \in DOMAIN bank : ~NodeFilter_should_filter_out(x)}),
       last_bond_topic \in LastBondTopics(
           NodeBank_prepare_builders(bank, BankUris(bank, known), topic_bank, action_bank))}

\* ROSModelBuilder.prepare: the ActionBuilders are extracted and added to the
\* action bank, the topic and action banks prepare, then the node bank
\* prepares with them; the KeyError of an ActionBuilder leaves prepare
ModelBuilderPrepare(known) ==
    /\ apc = "collected"
    /\ \E r \in {extract_action_builders_from_internal_topic_builders(topicBank)} :
         /\ topicBank' = TopicBank_prepare(r.bank)
         /\ IF ActionBank_prepare_raises(r.actions)
            THEN /\ actions' = r.actions /\ apc' = "crashed"
                 /\ UNCHANGED <<nodeBank, bpc>>
            ELSE /\ actions' = ActionBank_prepare(r.actions) /\ apc' = "prepared"
                 /\ nodeBank' \in prepare_node_bank(nodeBank, known,
                                     TopicBank_prepare(r.bank), ActionBank_prepare(r.actions))
                 /\ bpc' = "prepared"
    /\ UNCHANGED builderRest

BuilderNext ==
    \/ \E v \in TypeVariants : \E roles \in RoleAssignments : \E extra \in BOOLEAN :
           CollectTopicsAndNodes(TopicTypes(v), SystemState(roles, extra, "published"),
                                 SystemState(roles, extra, "subscribed"))
    \/ \E known \in BOOLEAN : ModelBuilderPrepare(known)

SpecBuilder == BuilderInit /\ [][BuilderNext]_vars

\* C29: after ROSModelBuilder.prepare, for every node n of the node bank and
\* every Action a of the action bank, a is in the action_clients of n if and
\* only if n is in the client_node_names of a, and a is in the
\* action_servers of n if and only if n is in the server_node_names of a
C29_NodeAndActionRolesAgree ==
    (apc = "prepared" /\ bpc = "prepared") =>
        \A n \in DOMAIN nodeBank : \A a \in DOMAIN actions :
            /\ a \in nodeBank[n].action_names["client"]
                   <=> n \in actions[a].client_node_names
            /\ a \in nodeBank[n].action_names["server"]
                   <=> n \in actions[a].server_node_names
(***************************************************************************)
(* ROSSnapshot._update_node_specification_data: the catalog of one kind of *)
(* an unvalidated node specification is filled from the names that the     *)
(* deployed node holds.  One iteration of its loop is one step.            *)
(***************************************************************************)
\* str(n) for n >= 0
RECURSIVE str(_)
str(n) ==
    IF n < 10
    THEN << <<"0", "1", "2", "3", "4", "5", "6", "7", "8", "9">>[n + 1] >>
    ELSE str(n \div 10) \o str(n % 10)

\* the names that a deployed node may hold, in the order of sorted()
UpdateNames ==
    << <<"/", "a", "_", "1">>, <<"/", "x", "/", "a">>, <<"/", "x", "/", "b">>,
       <<"/", "y", "/", "a">>, <<"/", "z", "/", "a", "_", "1">> >>

\* item_builders[name].construct_type
ItemTypes ==
    (UpdateNames[1] :> <<"int">>) @@ (UpdateNames[2] :> <<"str">>)
        @@ (UpdateNames[3] :> <<"bool">>) @@ (UpdateNames[4] :> <<"float">>)
        @@ (UpdateNames[5] :> <<"long">>)

\* the catalogs that the specification may hold before the call
SpecDataChoices ==
    {EmptyDict,
     Dict1(<<"a">>, <<"double">>),
     Dict1(<<"b">>, <<"double">>),
     Put(Dict1(<<"a">>, <<"double">>), <<"a", "_", "1">>, <<"list">>)}

\* sorted(builder_data)
sorted_builder_data(builder_data) ==
    SelectSeq(UpdateNames, LAMBDA n : n \in DOMAIN builder_data)

\* the state at the head of the loop: token_map = {name: 0 for name in spec_data}
UpdateCall(spec_data, builder_data) ==
    [spec_data |-> spec_data, builder_data |-> builder_data,
     token_map |-> [name \in DOMAIN spec_data |-> 0],
     names |-> sorted_builder_data(builder_data),
     spec_name |-> <<>>, spec_token |-> <<>>, suffixed |-> FALSE, raised |-> FALSE]

\* token_map[spec_token] += 1
next_count(u, token) == u.token_map[token] + 1

\* one iteration of the loop; token_map[spec_token] raises KeyError for a
\* token that the catalog holds under a key that the loop generated
update_one(u) ==
    LET spec_name == Head(u.names)
        token == LastToken(spec_name, "/")
        suffixed == token \in DOMAIN u.spec_data
    IN  IF suffixed /\ token \notin DOMAIN u.token_map
        THEN [u EXCEPT !.raised = TRUE, !.spec_name = spec_name, !.spec_token = token,
                       !.suffixed = FALSE]
        ELSE LET spec_token == IF suffixed
                               THEN token \o <<"_">> \o str(next_count(u, token))
                               ELSE token
             IN  [u EXCEPT
                    !.token_map = IF suffixed
                                  THEN [@ EXCEPT ![token] = next_count(u, token)]
                                  ELSE Put(@, token, 0),
                    !.spec_data = Put(@, spec_token, ItemTypes[spec_name]),
                    !.builder_data = [@ EXCEPT ![spec_name] = spec_token],
                    !.names = Tail(@),
                    !.spec_name = spec_name, !.spec_token = spec_token,
                    !.suffixed = suffixed]

UpdateInit ==
    /\ \E spec_data \in SpecDataChoices : \E held \in SUBSET Range(UpdateNames) :
           us = UpdateCall(spec_data, [n \in held |-> NoneV])
    /\ UpdateRestIdle

UpdateNodeSpecificationData ==
    /\ ~us.raised /\ us.names # <<>>
    /\ us' = update_one(us)
    /\ UNCHANGED updateRest

UpdateNext == UpdateNodeSpecificationData

SpecUpdate == UpdateInit /\ [][UpdateNext]_vars

\* C22: in _update_node_specification_data the names of the deployed node
\* that have a key are assigned distinct keys, and a key with a numeric
\* suffix that the loop generates is not a key that the catalog held before
\* the iteration (from before the call or from an earlier name)
C22_KeysAreDistinctAndOverwriteNothing ==
    [][ (us' # us /\ ~us'.raised) =>
            /\ \A n, m \in DOMAIN us'.builder_data :
                   (n # m /\ us'.builder_data[n] # NoneV /\ us'.builder_data[m] # NoneV)
                       => us'.builder_data[n] # us'.builder_data[m]
            /\ us'.suffixed => us'.spec_token \notin DOMAIN us.spec_data
      ]_vars

====
